---- MODULE Spec2Model ----
(***************************************************************************)
(* Model of the device supervisor of the CSI firmware:                     *)
(* csi-firmware/main/main.c, app_main_task (startup sequence and the main  *)
(* application loop), together with the collaborators it calls             *)
(* (collector queue, clock sync, MQTT channel, update checker).            *)
(*                                                                         *)
(* Time is measured in model tick quanta.  xTaskGetTickCount() is the      *)
(* variable tickCount, an unsigned counter of width TickModulus; the       *)
(* periods of the housekeeping actions, pdMS_TO_TICKS(30000) and           *)
(* pdMS_TO_TICKS(300000), are scaled down to StatsPeriod, MetricsPeriod    *)
(* and OtaPeriod quanta.  One loop iteration lasts at most MaxStep quanta, *)
(* which is less than the counter width minus a period: no single          *)
(* iteration spans a whole wrap of the tick counter.                       *)
(***************************************************************************)
EXTENDS Integers, Sequences, FiniteSets, TLC

\* ---------------------------------------------------------------- bounds
MaxLoops == 3          \* loop iterations explored
MaxSamples == 2        \* samples the collector produces in a run
QueueCapacity == 2     \* length of the collector queue
MaxStep == 3           \* tick quanta one loop iteration may last
TickModulus == 6       \* width of TickType_t, in model quanta
StatsPeriod == 1       \* pdMS_TO_TICKS(30000), in model quanta
MetricsPeriod == 2     \* pdMS_TO_TICKS(300000), in model quanta
OtaPeriod == 2         \* pdMS_TO_TICKS(300000), in model quanta
MaxMessages == 1       \* remote messages delivered in a run
MaxAttempts == 3       \* connection attempts of the stream channel in a run
MaxSends == 1          \* messages handed to the stream channel in a run
MaxRetry == 3          \* largest retry_count of the HTTP channel
MaxOps == 4            \* operations on the connected stream channel in a run
MaxCalls == 3          \* send calls on the HTTP channel in a run

\* ------------------------------------------------------ program constants
LowHeapThreshold == 10000      \* main.c:306
NtpWaitPolls == 30             \* main.c:111
UsecPerSec == 1000000          \* main.c:214
WS_DEFAULT_RECONNECT_MS == 5000  \* websocket_telemetry.h:222
WS_DEFAULT_BUFFER_SIZE == 1024   \* websocket_telemetry.h:223
WS_MAX_CSI_BATCH_SIZE == 50      \* websocket_telemetry.h:224
HeaderLen == 8                   \* sizeof(websocket_msg_header_t), packed
MaxPayloadLen == 2^16 - 1        \* uint16_t payload_len

\* ------------------------------------------------------------ input sets
HeapValues == {LowHeapThreshold - 1, LowHeapThreshold}
RawTimestamps == {5}                    \* timestamps set by the collector
RssiValues == {-50}
TimeVals == {[tv_sec |-> 1, tv_usec |-> 7], [tv_sec |-> 2, tv_usec |-> 0]}
Configs == [csi_enabled : BOOLEAN, ntp_enabled : BOOLEAN,
            mqtt_enabled : BOOLEAN, ota_enabled : BOOLEAN,
            ota_auto_update : BOOLEAN, device_name : {"stored"}]
NoSample == [id |-> 0, timestamp |-> 0, rssi |-> 0]
NoHeapRead == -1
NoAlert == [level |-> "", component |-> "", message |-> ""]
\* main.c:308: mqtt_publish_alert(config.device_name, "ERROR", "SYSTEM", ...)
LowMemoryAlert == [level |-> "ERROR", component |-> "SYSTEM",
                   message |-> "Critical low memory"]
\* the fields of app_config_t the remote handlers write
FieldNames == {"broker_url", "port", "topic_prefix", "device_name", "ssid",
               "password"}
\* every field holds the value that was stored when the device started
StoredAtBoot == [f \in FieldNames |-> "stored"]
\* no section handler holds a copy of the configuration
NoAppCfg == [f \in FieldNames |-> ""]

\* what an update holds for a field: nothing, a value of another JSON type,
\* or a value of the type the handler accepts
FieldKinds == {"absent", "wrong_type", "valid"}
NoFields == [f \in FieldNames |-> "absent"]
NoMessage == [kind |-> "none", csi |-> FALSE, mqtt |-> FALSE, node |-> FALSE,
              wifi |-> FALSE, command |-> "", fields |-> NoFields]
NoClockRead == [status |-> "none", tv_sec |-> 0, tv_usec |-> 0]
NoConfig == [csi_enabled |-> FALSE, ntp_enabled |-> FALSE,
             mqtt_enabled |-> FALSE, ota_enabled |-> FALSE,
             ota_auto_update |-> FALSE, device_name |-> ""]

VARIABLES
  pc,                  \* position of app_main_task
  config,              \* app_config_t config (the flags the task reads)
  ntp_wait_i,          \* i of the initial-synchronization wait loop
  loop_counter, csi_data_count, mqtt_publish_count, mqtt_publish_errors,
  last_stats_time, last_ota_check, last_system_metrics,
  current_time,        \* TickType_t current_time of the running iteration
  csi_data,            \* csi_data_t csi_data of the running iteration
  tickCount,           \* xTaskGetTickCount()
  queue,               \* the collector's queue
  collectorRunning,    \* csi_collector_is_running()
  ntpStarted,          \* the clock-sync task runs; ntp_sync_is_synchronized()
                       \* can only then answer true
  mqttStarted, mqttConnected,      \* mqtt_client_is_connected()
  produced,            \* number of samples the collector has produced
  called,              \* start-up log: collaborator entry points called
  popped,              \* the held sample as it left the queue
  clockRead,           \* what the clock answered for the held sample
  sawConnected,        \* result of the connected check for the held sample
  attempts,            \* transmission attempts made for the held sample
  releases,            \* per sample: number of csi_collector_free_data calls
  emitted,             \* outputs of the task's latest step
  lowHeapLog,          \* what the low-heap path has done, in order
  heapRead,            \* free heap read by the running iteration's guard
  alertSent,           \* arguments of the low-heap mqtt_publish_alert call
  nameUsed,            \* config.device_name as the running iteration passed
                       \* it to mqtt_publish_system_metrics or
                       \* mqtt_publish_alert
  sinceStats, sinceMetrics, sinceOta,  \* quanta really elapsed since the
                                       \* action last fired, capped at its period
  inbox,               \* the remote messages the broker may deliver
  hpc,                 \* position of the task that runs the remote handlers
  msg,                 \* the remote message being handled
  err,                 \* esp_err_t err of remote_config_update_handler
  result,              \* value the last handler returned
  handlerLog,          \* collaborator calls of the latest handler run, in order
  delivered,           \* number of remote messages delivered so far
  storedCfg,           \* version of the configuration in persistent storage
  channelCfg,          \* version the MQTT client was last initialized with
  wsState,             \* ChannelState of the stream channel
  wsConfig,            \* websocket_telemetry_config_t: auto_reconnect,
                       \* reconnect_timeout_ms
  wsPending,           \* transport events and timers not yet delivered
  wsElapsed,           \* ms since the channel last entered Reconnecting
  wsAttempts,          \* connection attempts started
  wsHandshakes,        \* handshakes that succeeded
  connection_errors,   \* websocket_telemetry_get_stats: connection_errors
  messages_sent,       \* websocket_telemetry_get_stats: messages_sent
  wsSends,             \* messages handed to send()
  wsSendResult,        \* what the latest send() or its completion reported
  wsStopped,           \* stop() has returned
  wsLate,              \* events delivered after stop() returned
  wsHistory,           \* the states the channel has been in, in order
  wsDelays,            \* per reconnect attempt: ms waited since the failure
  httpPc,              \* position of http send(): idle, attempt, backoff
  httpConfig,          \* http_telemetry_config_t: retry_count
  httpAttempts,        \* attempts made by the running send()
  httpOutcomes,        \* outcome of each attempt of the latest send()
  httpResult,          \* what the latest send() returned
  httpCalls,           \* send() calls made
  requests_sent,       \* http_telemetry_get_stats: requests_sent
  requests_failed,     \* http_telemetry_get_stats: requests_failed
  httpFailedBefore,    \* requests_failed when the latest send() was called
  codecPc,             \* position of the codec run: idle, input, encoded, received, decoded
  codecIn,             \* arguments of encode and the channel's configuration
  wire,                \* what encode returned
  received,            \* the bytes handed to decode
  decoded,             \* what decode returned
  wsOp,                \* the latest operation on the connected channel and its argument
  wsOpResult,          \* what that operation returned
  wsOps,               \* operations made on the connected channel
  wsBufferSize,        \* websocket_telemetry_config_t: buffer_size
  sequence_num,        \* sequence number of the next message on the connection
  sendBuffer,          \* messages accepted and not yet transmitted, oldest first
  wsWire,              \* messages transmitted on the connection, in order
  wsEvents,            \* events surfaced to the registered callback, in order
  bytes_sent,          \* websocket_telemetry_get_stats: bytes_sent
  messages_received,   \* websocket_telemetry_get_stats: messages_received
  avg_latency_ms,      \* websocket_telemetry_get_stats: avg_latency_ms
  wsPing,              \* the outstanding Ping: its id and dispatch time
  wsPings,             \* Pings sent
  wsClock,             \* ms since the connection was made
  stored,              \* the fields of the configuration in persistent storage
  app_cfg,             \* app_config_t app_cfg of the running section handler
  ackTopic             \* device name in the topic of the latest acknowledgment

vars == <<pc, config, ntp_wait_i, loop_counter, csi_data_count,
          mqtt_publish_count, mqtt_publish_errors, last_stats_time,
          last_ota_check, last_system_metrics, current_time, csi_data,
          tickCount, queue, collectorRunning, ntpStarted,
          mqttStarted, mqttConnected, produced, called, popped, clockRead,
          sawConnected,
          attempts, releases, emitted, lowHeapLog, heapRead, alertSent,
          nameUsed,
          sinceStats, sinceMetrics, sinceOta,
          inbox, hpc, msg, err, result, handlerLog, delivered, storedCfg,
          channelCfg,
          wsState, wsConfig, wsPending, wsElapsed, wsAttempts, wsHandshakes,
          connection_errors, messages_sent, wsSends, wsSendResult, wsStopped,
          wsLate, wsHistory, wsDelays,
          httpPc, httpConfig, httpAttempts, httpOutcomes, httpResult,
          httpCalls, requests_sent, requests_failed, httpFailedBefore,
          codecPc, codecIn, wire, received, decoded,
          wsOp, wsOpResult, wsOps, wsBufferSize, sequence_num, sendBuffer, wsWire, wsEvents, bytes_sent, messages_received, avg_latency_ms, wsPing, wsPings, wsClock,
          stored, app_cfg, ackTopic>>

taskVars == <<config, ntp_wait_i>>
counterVars == <<loop_counter, csi_data_count, mqtt_publish_count,
                 mqtt_publish_errors>>
timerVars == <<last_stats_time, last_ota_check, last_system_metrics>>
sampleVars == <<csi_data, popped, clockRead, sawConnected, attempts,
                releases>>
envVars == <<queue, collectorRunning, ntpStarted, mqttStarted,
             mqttConnected, produced>>
clockVars == <<tickCount, sinceStats, sinceMetrics, sinceOta>>
guardVars == <<lowHeapLog, heapRead, alertSent, nameUsed>>
remoteVars == <<inbox, hpc, msg, err, result, handlerLog, delivered,
                storedCfg, channelCfg>>
\* the state of the components the supervisor task does not touch
streamVars == <<wsState, wsConfig, wsPending, wsElapsed, wsAttempts,
                wsHandshakes, connection_errors, messages_sent, wsSends,
                wsSendResult, wsStopped, wsLate, wsHistory, wsDelays>>
httpVars == <<httpPc, httpConfig, httpAttempts, httpOutcomes, httpResult,
              httpCalls, requests_sent, requests_failed, httpFailedBefore>>
codecVars == <<codecPc, codecIn, wire, received, decoded>>
messageVars == <<wsOp, wsOpResult, wsOps, wsBufferSize, sequence_num, sendBuffer, wsWire, wsEvents, bytes_sent, messages_received, avg_latency_ms, wsPing, wsPings, wsClock>>
cfgVars == <<stored, app_cfg, ackTopic>>
componentVars == <<remoteVars, streamVars, httpVars, codecVars, messageVars, cfgVars>>

Min(a, b) == IF a < b THEN a ELSE b

\* TickType_t subtraction: current - last, modulo the counter width
TickDiff(current, last) == (current - last) % TickModulus

\* The tick counter starts one quantum before its wrap; every test on it is
\* a difference modulo TickModulus, so the start value is immaterial.
SupervisorInit ==
  /\ pc = "system_init"
  /\ config = NoConfig
  /\ ntp_wait_i = 0
  /\ loop_counter = 0 /\ csi_data_count = 0
  /\ mqtt_publish_count = 0 /\ mqtt_publish_errors = 0
  /\ last_stats_time = 0 /\ last_ota_check = 0 /\ last_system_metrics = 0
  /\ current_time = 0
  /\ csi_data = NoSample
  /\ tickCount = TickModulus - 1
  /\ queue = <<>>
  /\ collectorRunning = FALSE
  /\ ntpStarted = FALSE
  /\ mqttStarted = FALSE /\ mqttConnected = FALSE
  /\ produced = 0
  /\ called = {}
  /\ popped = NoSample
  /\ clockRead = NoClockRead
  /\ sawConnected = FALSE
  /\ attempts = 0
  /\ releases = [i \in 1..MaxSamples |-> 0]
  /\ emitted = {}
  /\ lowHeapLog = <<>>
  /\ heapRead = NoHeapRead
  /\ alertSent = NoAlert
  /\ nameUsed = ""
  /\ sinceStats = 0 /\ sinceMetrics = 0 /\ sinceOta = 0

\* no remote handler is running and none has run
RemoteIdle ==
  /\ hpc = "idle"
  /\ msg = NoMessage
  /\ err = "ESP_OK" /\ result = "none"
  /\ handlerLog = <<>>
  /\ delivered = 0
  /\ storedCfg = 0 /\ channelCfg = 0
  /\ stored = StoredAtBoot
  /\ app_cfg = NoAppCfg
  /\ ackTopic = ""

\* remote_config_init is not called by main.c: no remote message is handled
\* the stream channel is initialized with the default configuration and
\* not started
StreamIdle ==
  /\ wsState = "Disconnected"
  /\ wsConfig = [auto_reconnect |-> TRUE,
                 reconnect_timeout_ms |-> WS_DEFAULT_RECONNECT_MS]
  /\ wsPending = {}
  /\ wsElapsed = 0
  /\ wsAttempts = 0 /\ wsHandshakes = 0
  /\ connection_errors = 0 /\ messages_sent = 0
  /\ wsSends = 0 /\ wsSendResult = "none"
  /\ wsStopped = FALSE /\ wsLate = 0
  /\ wsHistory = <<"Disconnected">>
  /\ wsDelays = <<>>

\* no send() of the HTTP channel has been called
HttpIdle ==
  /\ httpPc = "idle"
  /\ httpConfig = [retry_count |-> 1]
  /\ httpAttempts = 0
  /\ httpOutcomes = <<>>
  /\ httpResult = "none"
  /\ httpCalls = 0
  /\ requests_sent = 0 /\ requests_failed = 0
  /\ httpFailedBefore = 0

\* a 32-bit sequence number, kept as its two 16-bit halves
SeqZero == [hi |-> 0, lo |-> 0]
NoCodecInput == [tag |-> 0, device_id |-> <<>>, payload |-> <<>>,
                 sequence_num |-> SeqZero, buffer_size |-> 0]
NoWire == [status |-> "none", bytes |-> <<>>]
NoDecoded == [status |-> "none", tag |-> 0, device_id |-> <<>>,
              payload |-> <<>>, sequence_num |-> SeqZero]

\* the codec has not been used
CodecIdle ==
  /\ codecPc = "idle"
  /\ codecIn = NoCodecInput
  /\ wire = NoWire
  /\ received = <<>>
  /\ decoded = NoDecoded

NoOp == [op |-> "none", n |-> 0]
NoPing == [id |-> 0, at |-> 0]

\* no message has been handed to the stream channel
MessageIdle ==
  /\ wsOp = NoOp /\ wsOpResult = "none" /\ wsOps = 0
  /\ wsBufferSize = WS_DEFAULT_BUFFER_SIZE
  /\ sequence_num = SeqZero
  /\ sendBuffer = <<>> /\ wsWire = <<>> /\ wsEvents = <<>>
  /\ bytes_sent = 0 /\ messages_received = 0 /\ avg_latency_ms = 0
  /\ wsPing = NoPing /\ wsPings = 0
  /\ wsClock = 0

\* main.c uses neither telemetry channel: both stay as they are constructed
Init ==
  /\ SupervisorInit /\ RemoteIdle /\ inbox = {}
  /\ StreamIdle /\ HttpIdle /\ CodecIdle /\ MessageIdle

\* ------------------------------------------------------------------ startup

\* main.c:40-44: system_init(); on failure vTaskDelete(NULL)
SystemInit ==
  /\ UNCHANGED componentVars
  /\ pc = "system_init"
  /\ \E ok \in BOOLEAN :
       /\ pc' = IF ok THEN "config_load" ELSE "deleted"
       /\ called' = IF ok THEN {"system_init"} ELSE {}
  /\ emitted' = {}
  /\ UNCHANGED <<taskVars, counterVars, timerVars, current_time, sampleVars,
                 envVars, clockVars, guardVars>>

\* main.c:47-51: app_config_load(&config), else app_config_set_defaults
ConfigLoad ==
  /\ UNCHANGED componentVars
  /\ pc = "config_load"
  /\ \E ok \in BOOLEAN, c \in Configs :
       /\ config' = c
       /\ called' = called \cup (IF ok THEN {"app_config_load"}
                                       ELSE {"app_config_set_defaults"})
  /\ pc' = "web_server"
  /\ emitted' = {}
  /\ UNCHANGED <<ntp_wait_i, counterVars, timerVars, current_time, sampleVars,
                 envVars, clockVars, guardVars>>

\* a start-up that gives up when the web server does not start
WebServerStartFatal ==
  /\ UNCHANGED componentVars
  /\ pc = "web_server"
  /\ \E ok \in BOOLEAN :
       /\ called' = called \cup {"web_server_start"} \cup
                    (IF ok THEN {} ELSE {"web_server_failed"})
       /\ pc' = IF ok THEN "csi_collector" ELSE "deleted"
  /\ emitted' = {}
  /\ UNCHANGED <<taskVars, counterVars, timerVars, current_time, sampleVars,
                 envVars, clockVars, guardVars>>

\* main.c:56-68: web_server_start(&web_config)
WebServerStart ==
  /\ UNCHANGED componentVars
  /\ pc = "web_server"
  /\ \E ok \in BOOLEAN :
       called' = called \cup {"web_server_start"} \cup
                 (IF ok THEN {} ELSE {"web_server_failed"})
  /\ pc' = "csi_collector"
  /\ emitted' = {}
  /\ UNCHANGED <<taskVars, counterVars, timerVars, current_time, sampleVars,
                 envVars, clockVars, guardVars>>

\* main.c:71-89: csi_collector_init, csi_collector_start
CsiCollectorSetup ==
  /\ UNCHANGED componentVars
  /\ pc = "csi_collector"
  /\ IF config.csi_enabled
       THEN \E initOk \in BOOLEAN, startOk \in BOOLEAN :
              /\ called' = called \cup {"csi_collector_init"} \cup
                           (IF initOk THEN {"csi_collector_start"} ELSE {})
              /\ collectorRunning' = (initOk /\ startOk)
       ELSE UNCHANGED <<called, collectorRunning>>
  /\ pc' = "ntp"
  /\ emitted' = {}
  /\ UNCHANGED <<taskVars, counterVars, timerVars, current_time, sampleVars,
                 queue, ntpStarted, mqttStarted,
                 mqttConnected, produced, clockVars, guardVars>>

\* main.c:92-109, 127-129: ntp_sync_init, ntp_sync_start
NtpSetup ==
  /\ UNCHANGED componentVars
  /\ pc = "ntp"
  /\ IF config.ntp_enabled
       THEN \E initOk \in BOOLEAN, startOk \in BOOLEAN :
              /\ called' = called \cup {"ntp_sync_init"} \cup
                           (IF initOk THEN {"ntp_sync_start"} ELSE {})
              /\ ntpStarted' = (initOk /\ startOk)
              /\ pc' = IF initOk /\ startOk THEN "ntp_wait" ELSE "mqtt"
       ELSE /\ UNCHANGED <<called, ntpStarted>>
            /\ pc' = "mqtt"
  /\ ntp_wait_i' = 0
  /\ emitted' = {}
  /\ UNCHANGED <<config, counterVars, timerVars, current_time, sampleVars,
                 queue, collectorRunning, mqttStarted,
                 mqttConnected, produced, clockVars, guardVars>>

\* ntp_sync_is_synchronized(): what the clock-sync task reports when asked
SyncAnswers == IF ntpStarted THEN BOOLEAN ELSE {FALSE}

\* a wait whose loop test admits one more poll
NtpWaitInclusive ==
  /\ UNCHANGED componentVars
  /\ pc = "ntp_wait"
  /\ \E synchronized \in SyncAnswers :
       IF ntp_wait_i <= NtpWaitPolls /\ ~synchronized
         THEN /\ ntp_wait_i' = ntp_wait_i + 1      \* vTaskDelay(1000)
              /\ pc' = pc
         ELSE /\ pc' = "mqtt"
              /\ ntp_wait_i' = 0                   \* i leaves scope
  /\ emitted' = {}
  /\ UNCHANGED <<config, counterVars, timerVars, current_time, sampleVars,
                 envVars, clockVars, called, guardVars>>

\* main.c:111-125: wait up to 30 s for the initial synchronization
NtpWait ==
  /\ UNCHANGED componentVars
  /\ pc = "ntp_wait"
  /\ \E synchronized \in SyncAnswers :
       IF ntp_wait_i < NtpWaitPolls /\ ~synchronized
         THEN /\ ntp_wait_i' = ntp_wait_i + 1      \* vTaskDelay(1000)
              /\ pc' = pc
         ELSE /\ pc' = "mqtt"
              /\ ntp_wait_i' = 0                   \* i leaves scope
  /\ emitted' = {}
  /\ UNCHANGED <<config, counterVars, timerVars, current_time, sampleVars,
                 envVars, clockVars, called, guardVars>>

\* main.c:132-150, 171-173: mqtt_client_init, mqtt_client_start
MqttSetup ==
  /\ UNCHANGED componentVars
  /\ pc = "mqtt"
  /\ IF config.mqtt_enabled
       THEN \E initOk \in BOOLEAN, startOk \in BOOLEAN :
              /\ called' = called \cup {"mqtt_client_init"} \cup
                           (IF initOk THEN {"mqtt_client_start"} ELSE {})
              /\ mqttStarted' = (initOk /\ startOk)
              /\ pc' = IF initOk /\ startOk THEN "mqtt_started" ELSE "ota"
       ELSE /\ UNCHANGED <<called, mqttStarted>>
            /\ pc' = "ota"
  /\ emitted' = {}
  /\ UNCHANGED <<taskVars, counterVars, timerVars, current_time, sampleVars,
                 queue, collectorRunning, ntpStarted,
                 mqttConnected, produced, clockVars, guardVars>>

\* main.c:151-170: register callback, subscribe if connected, publish status
MqttStarted ==
  /\ UNCHANGED componentVars
  /\ pc = "mqtt_started"
  /\ called' = called \cup {"mqtt_client_register_callback"} \cup
               (IF mqttConnected
                  THEN {"mqtt_subscriber_subscribe_device_topics"} ELSE {})
  /\ emitted' = {"mqtt_publish_device_status"}
  /\ pc' = "ota"
  /\ UNCHANGED <<taskVars, counterVars, timerVars, current_time, sampleVars,
                 envVars, clockVars, guardVars>>

\* main.c:176-187: ota_updater_init(&ota_config)
OtaInit ==
  /\ UNCHANGED componentVars
  /\ pc = "ota"
  /\ \E ok \in BOOLEAN :
       called' = called \cup {"ota_updater_init"} \cup
                 (IF ok THEN {} ELSE {"ota_updater_failed"})
  /\ pc' = "init_counters"
  /\ emitted' = {}
  /\ UNCHANGED <<taskVars, counterVars, timerVars, current_time, sampleVars,
                 envVars, clockVars, guardVars>>

\* main.c:189-198: "All systems initialized", counters and timers.  The
\* start-up log is closed here.
InitCounters ==
  /\ UNCHANGED componentVars
  /\ pc = "init_counters"
  /\ loop_counter' = 0 /\ csi_data_count' = 0
  /\ mqtt_publish_count' = 0 /\ mqtt_publish_errors' = 0
  /\ last_stats_time' = tickCount
  /\ last_ota_check' = tickCount
  /\ last_system_metrics' = tickCount
  /\ sinceStats' = 0 /\ sinceMetrics' = 0 /\ sinceOta' = 0
  /\ called' = {}
  /\ pc' = "loop"
  /\ emitted' = {}
  /\ UNCHANGED <<taskVars, current_time, sampleVars, envVars, tickCount,
                 guardVars>>

\* --------------------------------------------------------- the main loop

\* main.c:201-205: loop_counter++, csi_collector_is_running().  The uint32_t
\* counters stay below MaxLoops, far from their 32-bit wrap.
LoopTop ==
  /\ UNCHANGED componentVars
  /\ pc = "loop"
  /\ loop_counter' = loop_counter + 1
  /\ pc' = IF collectorRunning THEN "get_data" ELSE "stats"
  /\ emitted' = {}
  /\ UNCHANGED <<taskVars, csi_data_count, mqtt_publish_count,
                 mqtt_publish_errors, timerVars, current_time, sampleVars,
                 envVars, clockVars, called, guardVars>>

\* a supervisor that drains the queue and keeps the newest sample
GetDataDraining ==
  /\ UNCHANGED componentVars
  /\ pc = "get_data"
  /\ IF queue # <<>>
       THEN /\ csi_data' = queue[Len(queue)]
            /\ popped' = queue[Len(queue)]
            /\ queue' = <<>>
            /\ csi_data_count' = csi_data_count + 1
            /\ emitted' = {"pop"}
            /\ pc' = "timestamp"
       ELSE /\ pc' = "stats"
            /\ emitted' = {}
            /\ UNCHANGED <<csi_data, popped, queue, csi_data_count>>
  /\ UNCHANGED <<taskVars, loop_counter, mqtt_publish_count,
                 mqtt_publish_errors, timerVars, current_time, clockRead,
                 sawConnected, attempts, releases, collectorRunning,
                 ntpStarted, mqttStarted, mqttConnected, produced, clockVars,
                 called, guardVars>>

\* a pop that waits for a sample without a timeout
GetDataBlocking ==
  /\ UNCHANGED componentVars
  /\ pc = "get_data"
  /\ queue # <<>>
  /\ csi_data' = Head(queue)
  /\ popped' = Head(queue)
  /\ queue' = Tail(queue)
  /\ csi_data_count' = csi_data_count + 1
  /\ emitted' = {"pop"}
  /\ pc' = "timestamp"
  /\ UNCHANGED <<taskVars, loop_counter, mqtt_publish_count,
                 mqtt_publish_errors, timerVars, current_time, clockRead,
                 sawConnected, attempts, releases, collectorRunning,
                 ntpStarted, mqttStarted, mqttConnected, produced, clockVars,
                 called, guardVars>>

\* a pop that copies the head of the queue and leaves it queued
GetDataPeeking ==
  /\ UNCHANGED componentVars
  /\ pc = "get_data"
  /\ IF queue # <<>>
       THEN /\ csi_data' = Head(queue)
            /\ popped' = Head(queue)
            /\ csi_data_count' = csi_data_count + 1
            /\ emitted' = {"pop"}
            /\ pc' = "timestamp"
       ELSE /\ pc' = "stats"
            /\ emitted' = {}
            /\ UNCHANGED <<csi_data, popped, csi_data_count>>
  /\ UNCHANGED <<taskVars, loop_counter, mqtt_publish_count,
                 mqtt_publish_errors, timerVars, current_time, clockRead,
                 sawConnected, attempts, releases, envVars, clockVars,
                 called, guardVars>>

\* main.c:206-208: csi_collector_get_data(&csi_data, pdMS_TO_TICKS(100))
GetData ==
  /\ UNCHANGED componentVars
  /\ pc = "get_data"
  /\ IF queue # <<>>
       THEN /\ csi_data' = Head(queue)
            /\ popped' = Head(queue)
            /\ queue' = Tail(queue)
            /\ csi_data_count' = csi_data_count + 1
            /\ emitted' = {"pop"}
            /\ pc' = "timestamp"
       ELSE /\ pc' = "stats"                       \* timed out
            /\ emitted' = {}
            /\ UNCHANGED <<csi_data, popped, queue, csi_data_count>>
  /\ UNCHANGED <<taskVars, loop_counter, mqtt_publish_count,
                 mqtt_publish_errors, timerVars, current_time, clockRead, sawConnected,
                 attempts, releases, collectorRunning, ntpStarted,
                 mqttStarted, mqttConnected, produced,
                 clockVars, called, guardVars>>

\* a conversion that scales the seconds to milliseconds
TimevalToMillis(tv) == tv.tv_sec * 1000 + tv.tv_usec

\* main.c:214: tv.tv_sec * 1000000ULL + tv.tv_usec (64-bit, no wrap in range)
TimevalToMicros(tv) == tv.tv_sec * UsecPerSec + tv.tv_usec

\* main.c:210-216: ntp_sync_is_synchronized(), ntp_sync_get_time(&tv)
CorrectTimestamp ==
  /\ UNCHANGED componentVars
  /\ pc = "timestamp"
  /\ \E synchronized \in SyncAnswers :
       IF synchronized
         THEN \/ \E tv \in TimeVals :                  \* ESP_OK
                   /\ csi_data' = [csi_data EXCEPT
                                     !.timestamp = TimevalToMicros(tv)]
                   /\ clockRead' = [status |-> "ok", tv_sec |-> tv.tv_sec,
                                    tv_usec |-> tv.tv_usec]
              \/ /\ UNCHANGED csi_data                 \* any other result
                 /\ clockRead' = [NoClockRead EXCEPT !.status = "failed"]
         ELSE /\ UNCHANGED csi_data
              /\ clockRead' = [NoClockRead EXCEPT !.status = "unsynchronized"]
  /\ emitted' = {}
  /\ pc' = "check_connected"
  /\ UNCHANGED <<taskVars, counterVars, timerVars, current_time, popped,
                 sawConnected, attempts, releases, envVars, clockVars, called,
                 guardVars>>

\* a supervisor that waits for the channel before it goes on
CheckConnectedWaiting ==
  /\ UNCHANGED componentVars
  /\ pc = "check_connected"
  /\ mqttConnected
  /\ sawConnected' = mqttConnected
  /\ emitted' = {}
  /\ pc' = "publish"
  /\ UNCHANGED <<taskVars, counterVars, timerVars, current_time, csi_data,
                 popped, clockRead, attempts, releases, envVars, clockVars,
                 called, guardVars>>

\* main.c:224: mqtt_client_is_connected()
CheckConnected ==
  /\ UNCHANGED componentVars
  /\ pc = "check_connected"
  /\ sawConnected' = mqttConnected
  /\ pc' = IF mqttConnected THEN "publish" ELSE "free_data"
  /\ emitted' = {}
  /\ UNCHANGED <<taskVars, counterVars, timerVars, current_time, csi_data,
                 popped, clockRead, attempts, releases, envVars, clockVars, called,
                 guardVars>>

\* a supervisor that skips the release when the publish fails
PublishCsiLeaking ==
  /\ UNCHANGED componentVars
  /\ pc = "publish"
  /\ attempts' = attempts + 1
  /\ emitted' = {"mqtt_client_publish_csi_data"}
  /\ \E ok \in BOOLEAN :
       IF ok
         THEN /\ mqtt_publish_count' = mqtt_publish_count + 1
              /\ pc' = "free_data"
              /\ UNCHANGED mqtt_publish_errors
         ELSE /\ mqtt_publish_errors' = mqtt_publish_errors + 1
              /\ pc' = "stats"
              /\ UNCHANGED mqtt_publish_count
  /\ UNCHANGED <<taskVars, loop_counter, csi_data_count, timerVars,
                 current_time, csi_data, popped, clockRead, sawConnected,
                 releases, envVars, clockVars, called, guardVars>>

\* a supervisor that publishes again when the publish fails
PublishCsiRetrying ==
  /\ UNCHANGED componentVars
  /\ pc = "publish"
  /\ attempts' = attempts + 1
  /\ emitted' = {"mqtt_client_publish_csi_data"}
  /\ \E ok \in BOOLEAN :
       IF ok
         THEN /\ mqtt_publish_count' = mqtt_publish_count + 1
              /\ pc' = "free_data"
              /\ UNCHANGED mqtt_publish_errors
         ELSE /\ mqtt_publish_errors' = mqtt_publish_errors + 1
              /\ pc' = IF attempts = 0 THEN "publish" ELSE "free_data"
              /\ UNCHANGED mqtt_publish_count
  /\ UNCHANGED <<taskVars, loop_counter, csi_data_count, timerVars,
                 current_time, csi_data, popped, clockRead, sawConnected,
                 releases, envVars, clockVars, called, guardVars>>

\* a supervisor that counts every publish attempt as a publish and a failed
\* one as an error as well
PublishCsiCountingAttempts ==
  /\ UNCHANGED componentVars
  /\ pc = "publish"
  /\ attempts' = attempts + 1
  /\ emitted' = {"mqtt_client_publish_csi_data"}
  /\ mqtt_publish_count' = mqtt_publish_count + 1
  /\ \E ok \in BOOLEAN :
       mqtt_publish_errors' = IF ok THEN mqtt_publish_errors
                                    ELSE mqtt_publish_errors + 1
  /\ pc' = "free_data"
  /\ UNCHANGED <<taskVars, loop_counter, csi_data_count, timerVars,
                 current_time, csi_data, popped, clockRead, sawConnected, releases,
                 envVars, clockVars, called, guardVars>>

\* main.c:225-231: mqtt_client_publish_csi_data(&csi_data)
PublishCsi ==
  /\ UNCHANGED componentVars
  /\ pc = "publish"
  /\ attempts' = attempts + 1
  /\ emitted' = {"mqtt_client_publish_csi_data"}
  /\ \E ok \in BOOLEAN :
       IF ok
         THEN /\ mqtt_publish_count' = mqtt_publish_count + 1
              /\ UNCHANGED mqtt_publish_errors
         ELSE /\ mqtt_publish_errors' = mqtt_publish_errors + 1
              /\ UNCHANGED mqtt_publish_count
  /\ pc' = "free_data"
  /\ UNCHANGED <<taskVars, loop_counter, csi_data_count, timerVars,
                 current_time, csi_data, popped, clockRead, sawConnected, releases,
                 envVars, clockVars, called, guardVars>>

\* main.c:234-236: csi_collector_free_data(&csi_data); csi_data leaves scope
FreeData ==
  /\ UNCHANGED componentVars
  /\ pc = "free_data"
  /\ releases' = [releases EXCEPT ![csi_data.id] = @ + 1]
  /\ csi_data' = NoSample
  /\ popped' = NoSample
  /\ clockRead' = NoClockRead
  /\ sawConnected' = FALSE
  /\ attempts' = 0
  /\ emitted' = {"free"}
  /\ pc' = "stats"
  /\ UNCHANGED <<taskVars, counterVars, timerVars, current_time, envVars,
                 clockVars, called, guardVars>>

\* statistics that are only reported while the channel is connected
StatsWhenConnected ==
  /\ UNCHANGED componentVars
  /\ pc = "stats"
  /\ current_time' = tickCount
  /\ IF mqttConnected /\ TickDiff(tickCount, last_stats_time) >= StatsPeriod
       THEN /\ last_stats_time' = tickCount
            /\ sinceStats' = 0
            /\ emitted' = {"stats_log"}
       ELSE /\ emitted' = {}
            /\ UNCHANGED <<last_stats_time, sinceStats>>
  /\ pc' = "metrics"
  /\ UNCHANGED <<taskVars, counterVars, last_ota_check, last_system_metrics,
                 sampleVars, envVars, tickCount, sinceMetrics, sinceOta,
                 called, guardVars>>

\* main.c:239-275: current_time = xTaskGetTickCount(); periodic statistics
Stats ==
  /\ UNCHANGED componentVars
  /\ pc = "stats"
  /\ current_time' = tickCount
  /\ IF TickDiff(tickCount, last_stats_time) >= StatsPeriod
       THEN /\ last_stats_time' = tickCount
            /\ sinceStats' = 0
            /\ emitted' = {"stats_log"}
       ELSE /\ emitted' = {}
            /\ UNCHANGED <<last_stats_time, sinceStats>>
  /\ pc' = "metrics"
  /\ UNCHANGED <<taskVars, counterVars, last_ota_check, last_system_metrics,
                 sampleVars, envVars, tickCount, sinceMetrics, sinceOta,
                 called, guardVars>>

\* metrics published under the device name read back from storage
MetricsReloading ==
  /\ UNCHANGED componentVars
  /\ pc = "metrics"
  /\ IF /\ config.mqtt_enabled
        /\ mqttConnected
        /\ TickDiff(current_time, last_system_metrics) >= MetricsPeriod
       THEN /\ last_system_metrics' = current_time
            /\ sinceMetrics' = 0
            /\ emitted' = {"mqtt_publish_system_metrics"}
            /\ nameUsed' = stored["device_name"]
       ELSE /\ emitted' = {}
            /\ UNCHANGED <<last_system_metrics, sinceMetrics, nameUsed>>
  /\ pc' = "ota_check"
  /\ UNCHANGED <<taskVars, counterVars, last_stats_time, last_ota_check,
                 current_time, sampleVars, envVars, tickCount, sinceStats,
                 sinceOta, called, lowHeapLog, heapRead, alertSent>>

\* main.c:277-291: mqtt_publish_system_metrics(...)
Metrics ==
  /\ UNCHANGED componentVars
  /\ pc = "metrics"
  /\ IF /\ config.mqtt_enabled
        /\ mqttConnected
        /\ TickDiff(current_time, last_system_metrics) >= MetricsPeriod
       THEN /\ last_system_metrics' = current_time
            /\ sinceMetrics' = 0
            /\ emitted' = {"mqtt_publish_system_metrics"}
            /\ nameUsed' = config.device_name
       ELSE /\ emitted' = {}
            /\ UNCHANGED <<last_system_metrics, sinceMetrics, nameUsed>>
  /\ pc' = "ota_check"
  /\ UNCHANGED <<taskVars, counterVars, last_stats_time, last_ota_check,
                 current_time, sampleVars, envVars, tickCount, sinceStats,
                 sinceOta, called, lowHeapLog, heapRead, alertSent>>

\* an update check that is retried on the next tick when it fails
OtaCheckRetrying ==
  /\ UNCHANGED componentVars
  /\ pc = "ota_check"
  /\ IF /\ config.ota_enabled
        /\ config.ota_auto_update
        /\ TickDiff(current_time, last_ota_check) >= OtaPeriod
       THEN \E ok \in BOOLEAN :
              IF ok
                THEN /\ last_ota_check' = current_time
                     /\ sinceOta' = 0
                     /\ emitted' = {"ota_check_ok"}
                ELSE /\ emitted' = {"ota_check_failed"}
                     /\ UNCHANGED <<last_ota_check, sinceOta>>
       ELSE /\ emitted' = {}
            /\ UNCHANGED <<last_ota_check, sinceOta>>
  /\ pc' = "health"
  /\ UNCHANGED <<taskVars, counterVars, last_stats_time, last_system_metrics,
                 current_time, sampleVars, envVars, tickCount, sinceStats,
                 sinceMetrics, called, guardVars>>

\* main.c:293-303: ota_updater_check_for_updates(), result only logged
OtaCheck ==
  /\ UNCHANGED componentVars
  /\ pc = "ota_check"
  /\ IF /\ config.ota_enabled
        /\ config.ota_auto_update
        /\ TickDiff(current_time, last_ota_check) >= OtaPeriod
       THEN /\ last_ota_check' = current_time
            /\ sinceOta' = 0
            /\ \E ok \in BOOLEAN :
                 emitted' = IF ok THEN {"ota_check_ok"} ELSE {"ota_check_failed"}
       ELSE /\ emitted' = {}
            /\ UNCHANGED <<last_ota_check, sinceOta>>
  /\ pc' = "health"
  /\ UNCHANGED <<taskVars, counterVars, last_stats_time, last_system_metrics,
                 current_time, sampleVars, envVars, tickCount, sinceStats,
                 sinceMetrics, called, guardVars>>

\* a guard that also fires at exactly the threshold
HealthGuardInclusive ==
  /\ UNCHANGED componentVars
  /\ pc = "health"
  /\ \E heap \in HeapValues :
       /\ heapRead' = heap
       /\ IF heap <= LowHeapThreshold
            THEN /\ pc' = "low_heap_alert"
                 /\ lowHeapLog' = Append(lowHeapLog, "low_heap")
            ELSE /\ pc' = "delay"
                 /\ UNCHANGED lowHeapLog
  /\ emitted' = {}
  /\ UNCHANGED <<taskVars, counterVars, timerVars, current_time, sampleVars,
                 envVars, clockVars, called, alertSent, nameUsed>>

\* main.c:305-307: esp_get_free_heap_size() < 10000
HealthGuard ==
  /\ UNCHANGED componentVars
  /\ pc = "health"
  /\ \E heap \in HeapValues :
       /\ heapRead' = heap
       /\ IF heap < LowHeapThreshold
            THEN /\ pc' = "low_heap_alert"
                 /\ lowHeapLog' = Append(lowHeapLog, "low_heap")
            ELSE /\ pc' = "delay"
                 /\ UNCHANGED lowHeapLog
  /\ emitted' = {}
  /\ UNCHANGED <<taskVars, counterVars, timerVars, current_time, sampleVars,
                 envVars, clockVars, called, alertSent, nameUsed>>

\* a supervisor that repeats the alert until it is delivered
LowHeapAlertRetrying ==
  /\ UNCHANGED componentVars
  /\ pc = "low_heap_alert"
  /\ \E ok \in BOOLEAN :
       /\ lowHeapLog' = Append(lowHeapLog, IF ok THEN "alert_ok" ELSE "alert_failed")
       /\ pc' = IF ok THEN "low_heap_wait" ELSE "low_heap_alert"
  /\ emitted' = {"mqtt_publish_alert"}
  /\ alertSent' = LowMemoryAlert
  /\ nameUsed' = config.device_name
  /\ UNCHANGED <<taskVars, counterVars, timerVars, current_time, sampleVars,
                 envVars, clockVars, called, heapRead>>

\* main.c:308: mqtt_publish_alert(...), result ignored
LowHeapAlert ==
  /\ UNCHANGED componentVars
  /\ pc = "low_heap_alert"
  /\ \E ok \in BOOLEAN :
       lowHeapLog' = Append(lowHeapLog, IF ok THEN "alert_ok" ELSE "alert_failed")
  /\ emitted' = {"mqtt_publish_alert"}
  /\ alertSent' = LowMemoryAlert
  /\ nameUsed' = config.device_name
  /\ pc' = "low_heap_wait"
  /\ UNCHANGED <<taskVars, counterVars, timerVars, current_time, sampleVars,
                 envVars, clockVars, called, heapRead>>

\* main.c:311: vTaskDelay(pdMS_TO_TICKS(5000))
LowHeapWait ==
  /\ UNCHANGED componentVars
  /\ pc = "low_heap_wait"
  /\ lowHeapLog' = Append(lowHeapLog, "wait_5000")
  /\ emitted' = {}
  /\ pc' = "low_heap_restart"
  /\ UNCHANGED <<taskVars, counterVars, timerVars, current_time, sampleVars,
                 envVars, clockVars, called, heapRead, alertSent,
                 nameUsed>>

\* main.c:312: esp_restart()
LowHeapRestart ==
  /\ UNCHANGED componentVars
  /\ pc = "low_heap_restart"
  /\ lowHeapLog' = Append(lowHeapLog, "restart")
  /\ emitted' = {"esp_restart"}
  /\ pc' = "restarted"
  /\ UNCHANGED <<taskVars, counterVars, timerVars, current_time, sampleVars,
                 envVars, clockVars, called, heapRead, alertSent,
                 nameUsed>>

\* main.c:315: vTaskDelay(pdMS_TO_TICKS(100)); the iteration has lasted d
\* quanta; current_time leaves scope
Delay ==
  /\ UNCHANGED componentVars
  /\ pc = "delay"
  /\ loop_counter < MaxLoops
  /\ \E d \in 0..MaxStep :
       /\ tickCount' = (tickCount + d) % TickModulus
       /\ sinceStats' = Min(sinceStats + d, StatsPeriod)
       /\ sinceMetrics' = Min(sinceMetrics + d, MetricsPeriod)
       /\ sinceOta' = Min(sinceOta + d, OtaPeriod)
  /\ current_time' = 0
  /\ heapRead' = NoHeapRead
  /\ nameUsed' = ""
  /\ emitted' = {}
  /\ pc' = "loop"
  /\ UNCHANGED <<taskVars, counterVars, timerVars, sampleVars, envVars,
                 called, lowHeapLog, alertSent>>

\* ------------------------------------------------- the other tasks

DeviceUp == pc \notin {"system_init", "restarted", "deleted"}

\* the collector task queues a sample
CollectorProduce ==
  /\ UNCHANGED componentVars
  /\ DeviceUp
  /\ collectorRunning
  /\ Len(queue) < QueueCapacity
  /\ produced < MaxSamples
  /\ produced' = produced + 1
  /\ \E ts \in RawTimestamps, r \in RssiValues :
       queue' = Append(queue, [id |-> produced + 1, timestamp |-> ts, rssi |-> r])
  /\ UNCHANGED <<pc, taskVars, counterVars, timerVars, current_time,
                 sampleVars, collectorRunning, ntpStarted,
                 mqttStarted, mqttConnected, clockVars, called, emitted,
                 guardVars>>

\* the MQTT client's task connects or loses the connection
MqttConnectionChange ==
  /\ UNCHANGED componentVars
  /\ DeviceUp
  /\ mqttStarted
  /\ mqttConnected' = ~mqttConnected
  /\ UNCHANGED <<pc, taskVars, counterVars, timerVars, current_time,
                 sampleVars, queue, collectorRunning, ntpStarted,
                 mqttStarted, produced, clockVars, called,
                 emitted, guardVars>>

\* ------------------------------------------- the remote handlers' task
\* The handlers of remote_config.c are registered with the MQTT subscriber
\* (remote_config_init) and run when the channel delivers a message to
\* mqtt_subscriber_default_callback, the callback main.c:155 registers with
\* the MQTT client.  The supervisor loop of main.c has no step that runs them.

\* the sections' fields, by the JSON key that carries them: broker_url, port,
\* topic_prefix (remote_config.c:75-88); node_name, wifi.ssid, wifi.password
\* (remote_config.c:123-142)
MqttFields == {"broker_url", "port", "topic_prefix"}
WifiFields == {"ssid", "password"}

\* an update whose present sections carry every field with the right type
PlainFields(m, n, w) ==
  [f \in FieldNames |->
     IF \/ f \in MqttFields /\ m
        \/ f = "device_name" /\ n
        \/ f \in WifiFields /\ n /\ w
       THEN "valid" ELSE "absent"]

ConfigUpdates ==
  { [kind |-> "config", csi |-> c, mqtt |-> m, node |-> n, wifi |-> w,
     command |-> "", fields |-> PlainFields(m, n, w)] :
       c \in BOOLEAN, m \in BOOLEAN, n \in BOOLEAN, w \in BOOLEAN }
Commands == {"restart", "start_csi", "stop_csi", "calibrate",
             "factory_reset", "get_status"}
\* what the command item of the params holds besides a known command: a
\* string that names no command, nothing, or a value that is not a string
CommandInputs == Commands \cup {"unknown", "missing", "not_a_string"}
NullConfig == [NoMessage EXCEPT !.kind = "null_config"]
NullParams == [NoMessage EXCEPT !.kind = "null_params"]
CommandMessage(c) == [NoMessage EXCEPT !.kind = "command", !.command = c]
ConfigMessages == ConfigUpdates \cup {NullConfig}
CommandMessages == {CommandMessage(c) : c \in CommandInputs} \cup {NullParams}

\* a copy that takes every field the update carries, whatever its JSON type
UpdatedAnyType(cfg, fields, names) ==
  [f \in FieldNames |->
     IF f \in names /\ fields[f] # "absent" THEN "remote" ELSE cfg[f]]

\* remote_config.c:75-88, 123-142: a field of the loaded copy is overwritten
\* if the update carries it with the accepted type, and kept otherwise
Updated(cfg, fields, names) ==
  [f \in FieldNames |->
     IF f \in names /\ fields[f] = "valid" THEN "remote" ELSE cfg[f]]

\* remote_config.c:129-130: ssid and password are read only from a wifi item
NodeFields(m) == {"device_name"} \cup (IF m.wifi THEN WifiFields ELSE {})

\* a handler that asks for a restart after any accepted node field
restart_required_any_field(m) ==
  \E f \in NodeFields(m) : m.fields[f] = "valid"

\* remote_config.c:116, 134-141: bool restart_required
restart_required(m) ==
  m.wifi /\ \E f \in WifiFields : m.fields[f] = "valid"

\* what the handlers leave alone in every step
handlerFrame == <<taskVars, counterVars, timerVars, current_time, sampleVars,
                  clockVars, called, emitted, guardVars, streamVars,
                  httpVars,
                  codecVars,
                  messageVars>>

Delivering ==
  /\ DeviceUp
  /\ mqttStarted /\ mqttConnected
  /\ hpc = "idle"
  /\ delivered < MaxMessages

\* remote_config.c:159-165: remote_config_update_handler(config) is entered
DeliverConfig ==
  /\ Delivering
  /\ delivered' = delivered + 1
  /\ handlerLog' = <<>>
  /\ err' = "ESP_OK"
  /\ \E m \in {x \in inbox : x.kind \in {"config", "null_config"}} :
       /\ msg' = m
       /\ IF m = NullConfig
            THEN /\ result' = "ESP_ERR_INVALID_ARG"
                 /\ hpc' = "idle"
            ELSE /\ result' = "none"
                 /\ hpc' = "csi_section"
  /\ UNCHANGED <<pc, envVars, inbox, storedCfg, channelCfg, handlerFrame>>
  /\ ackTopic' = ""
  /\ UNCHANGED <<stored, app_cfg>>

\* remote_config.c:167-174 and 26-59: handle_csi_config; a failure is
\* logged with ESP_LOGE and the handler goes on
CsiSection ==
  /\ pc # "restarted"
  /\ hpc = "csi_section"
  /\ IF msg.csi
       THEN \E getOk \in BOOLEAN, updateOk \in BOOLEAN :
              /\ err' = IF getOk /\ updateOk THEN "ESP_OK" ELSE "ESP_FAIL"
              /\ handlerLog' = handlerLog \o
                   (IF getOk THEN <<"csi_collector_get_config",
                                    "csi_collector_update_config">>
                             ELSE <<"csi_collector_get_config">>) \o
                   (IF getOk /\ updateOk THEN <<>> ELSE <<"ESP_LOGE_csi">>)
       ELSE UNCHANGED <<err, handlerLog>>
  /\ hpc' = "mqtt_section"
  /\ UNCHANGED <<pc, envVars, msg, result, delivered, storedCfg, channelCfg,
                 handlerFrame,
                 inbox>>
  /\ UNCHANGED cfgVars

\* remote_config.c:176-178 and 64-88: handle_mqtt_config loads the stored
\* configuration and copies the fields of the update into it
MqttLoad ==
  /\ pc # "restarted"
  /\ hpc = "mqtt_section"
  /\ IF msg.mqtt
       THEN \E ok \in BOOLEAN :
              /\ handlerLog' = handlerLog \o
                   (IF ok THEN <<"app_config_load">>
                          ELSE <<"app_config_load", "ESP_LOGE_mqtt">>)
              /\ IF ok THEN /\ hpc' = "mqtt_save"
                            /\ app_cfg' = Updated(stored, msg.fields,
                                                  MqttFields)
                            /\ UNCHANGED err
                       ELSE /\ hpc' = "node_section"
                            /\ err' = "ESP_FAIL"
                            /\ UNCHANGED app_cfg
       ELSE /\ hpc' = "node_section"
            /\ UNCHANGED <<err, handlerLog, app_cfg>>
  /\ UNCHANGED <<pc, envVars, msg, result, delivered, storedCfg, channelCfg,
                 handlerFrame,
                 inbox>>
  /\ UNCHANGED <<stored, ackTopic>>

\* a handler that restarts the client even when the save failed
MqttSaveIgnored ==
  /\ pc # "restarted"
  /\ hpc = "mqtt_save"
  /\ \E ok \in BOOLEAN :
       /\ handlerLog' = Append(handlerLog, IF ok THEN "app_config_save_ok"
                                                 ELSE "app_config_save_failed")
       /\ err' = IF ok THEN "ESP_OK" ELSE "ESP_FAIL"
       /\ storedCfg' = IF ok THEN storedCfg + 1 ELSE storedCfg
       /\ stored' = IF ok THEN app_cfg ELSE stored
       /\ hpc' = "mqtt_stop"
  /\ UNCHANGED <<pc, envVars, msg, result, delivered, channelCfg,
                 handlerFrame,
                 inbox>>
  /\ UNCHANGED <<app_cfg, ackTopic>>

\* remote_config.c:90-92: err = app_config_save(&app_cfg)
MqttSave ==
  /\ pc # "restarted"
  /\ hpc = "mqtt_save"
  /\ \E ok \in BOOLEAN :
       /\ handlerLog' = handlerLog \o
            (IF ok THEN <<"app_config_save_ok">>
                   ELSE <<"app_config_save_failed", "ESP_LOGE_mqtt">>)
       /\ err' = IF ok THEN "ESP_OK" ELSE "ESP_FAIL"
       /\ storedCfg' = IF ok THEN storedCfg + 1 ELSE storedCfg
       /\ stored' = IF ok THEN app_cfg ELSE stored
       /\ app_cfg' = IF ok THEN app_cfg ELSE NoAppCfg
       /\ hpc' = IF ok THEN "mqtt_stop" ELSE "node_section"
  /\ UNCHANGED <<pc, envVars, msg, result, delivered, channelCfg,
                 handlerFrame,
                 inbox>>
  /\ UNCHANGED ackTopic

\* a handler that re-initializes the client without stopping it
MqttStopSkipped ==
  /\ pc # "restarted"
  /\ hpc = "mqtt_stop"
  /\ handlerLog' = handlerLog
  /\ hpc' = "mqtt_wait"
  /\ UNCHANGED <<pc, envVars, msg, err, result, delivered, storedCfg,
                 channelCfg, handlerFrame,
                 inbox>>
  /\ UNCHANGED cfgVars

\* remote_config.c:94: mqtt_client_stop()
MqttStop ==
  /\ pc # "restarted"
  /\ hpc = "mqtt_stop"
  /\ mqttStarted' = FALSE
  /\ mqttConnected' = FALSE
  /\ handlerLog' = Append(handlerLog, "mqtt_client_stop")
  /\ hpc' = "mqtt_wait"
  /\ UNCHANGED <<pc, queue, collectorRunning, ntpStarted, produced, msg, err,
                 result, delivered, storedCfg, channelCfg, handlerFrame,
                 inbox>>
  /\ UNCHANGED cfgVars

\* remote_config.c:95: vTaskDelay(pdMS_TO_TICKS(1000))
MqttWait ==
  /\ pc # "restarted"
  /\ hpc = "mqtt_wait"
  /\ handlerLog' = Append(handlerLog, "vTaskDelay_1000")
  /\ hpc' = "mqtt_init"
  /\ UNCHANGED <<pc, envVars, msg, err, result, delivered, storedCfg,
                 channelCfg, handlerFrame,
                 inbox>>
  /\ UNCHANGED cfgVars

\* remote_config.c:96: mqtt_client_init(&app_cfg.mqtt), result ignored
MqttInit ==
  /\ pc # "restarted"
  /\ hpc = "mqtt_init"
  /\ \E ok \in BOOLEAN :
       channelCfg' = IF ok THEN storedCfg ELSE channelCfg
  /\ handlerLog' = Append(handlerLog, "mqtt_client_init")
  /\ hpc' = "mqtt_start"
  /\ UNCHANGED <<pc, envVars, msg, err, result, delivered, storedCfg,
                 handlerFrame,
                 inbox>>
  /\ UNCHANGED cfgVars

\* remote_config.c:97-100: mqtt_client_start(), result ignored; return err
MqttStart ==
  /\ pc # "restarted"
  /\ hpc = "mqtt_start"
  /\ \E ok \in BOOLEAN : mqttStarted' = ok
  /\ handlerLog' = Append(handlerLog, "mqtt_client_start")
  /\ hpc' = "node_section"
  /\ UNCHANGED <<pc, queue, collectorRunning, ntpStarted, mqttConnected,
                 produced, msg, err, result, delivered, storedCfg, channelCfg,
                 handlerFrame,
                 inbox>>
  /\ app_cfg' = NoAppCfg
  /\ UNCHANGED <<stored, ackTopic>>

\* remote_config.c:185-192 and 106-147: handle_node_settings up to the save
NodeSection ==
  /\ pc # "restarted"
  /\ hpc = "node_section"
  /\ IF msg.node
       THEN \E loadOk \in BOOLEAN, saveOk \in BOOLEAN :
              IF ~loadOk
                THEN /\ err' = "ESP_FAIL"
                     /\ handlerLog' = handlerLog \o
                          <<"app_config_load", "ESP_LOGE_node">>
                     /\ hpc' = "ack"
                     /\ UNCHANGED <<storedCfg, stored>>
                ELSE /\ err' = IF saveOk THEN "ESP_OK" ELSE "ESP_FAIL"
                     /\ handlerLog' = handlerLog \o
                          (IF saveOk
                             THEN <<"app_config_load", "app_config_save_ok">>
                             ELSE <<"app_config_load",
                                    "app_config_save_failed",
                                    "ESP_LOGE_node">>)
                     /\ storedCfg' = IF saveOk THEN storedCfg + 1
                                               ELSE storedCfg
                     /\ stored' = IF saveOk
                                     THEN Updated(stored, msg.fields,
                                                  NodeFields(msg))
                                     ELSE stored
                     /\ hpc' = IF saveOk /\ restart_required(msg)
                                 THEN "node_wait" ELSE "ack"
       ELSE /\ hpc' = "ack"
            /\ UNCHANGED <<err, handlerLog, storedCfg, stored>>
  /\ UNCHANGED <<pc, envVars, msg, result, delivered, channelCfg,
                 handlerFrame,
                 inbox>>
  /\ UNCHANGED <<app_cfg, ackTopic>>

\* remote_config.c:148-149: vTaskDelay(pdMS_TO_TICKS(5000))
NodeWait ==
  /\ pc # "restarted"
  /\ hpc = "node_wait"
  /\ handlerLog' = Append(handlerLog, "vTaskDelay_5000")
  /\ hpc' = "node_restart"
  /\ UNCHANGED <<pc, envVars, msg, err, result, delivered, storedCfg,
                 channelCfg, handlerFrame,
                 inbox>>
  /\ UNCHANGED cfgVars

\* remote_config.c:150: esp_restart()
NodeRestart ==
  /\ pc # "restarted"
  /\ hpc = "node_restart"
  /\ handlerLog' = Append(handlerLog, "esp_restart")
  /\ hpc' = "restarted"
  /\ pc' = "restarted"
  /\ UNCHANGED <<envVars, msg, err, result, delivered, storedCfg, channelCfg,
                 handlerFrame,
                 inbox>>
  /\ UNCHANGED cfgVars

\* a handler that publishes the acknowledgment whether or not the stored
\* configuration loaded
AckUnloaded ==
  /\ pc # "restarted"
  /\ hpc = "ack"
  /\ \E loadOk \in BOOLEAN :
       /\ handlerLog' =
            handlerLog \o
              (IF loadOk
                 THEN <<"app_config_load", "cJSON_PrintUnformatted">>
                 ELSE <<"app_config_load">>) \o
              <<IF err = "ESP_OK" THEN "ack_success" ELSE "ack_failed">>
       /\ ackTopic' = stored["device_name"]
  /\ result' = err
  /\ hpc' = "idle"
  /\ UNCHANGED <<pc, envVars, msg, err, delivered, storedCfg, channelCfg,
                 handlerFrame,
                 inbox>>
  /\ UNCHANGED <<stored, app_cfg>>

\* remote_config.c:194-213: the acknowledgment is published if the stored
\* configuration loads (196) and cJSON_PrintUnformatted returns a string
\* (205-206); return err
Ack ==
  /\ pc # "restarted"
  /\ hpc = "ack"
  /\ \E loadOk \in BOOLEAN, printOk \in BOOLEAN :
       /\ handlerLog' =
            handlerLog \o
              (CASE ~loadOk -> <<"app_config_load">>
                 [] loadOk /\ ~printOk ->
                      <<"app_config_load", "cJSON_PrintUnformatted">>
                 [] loadOk /\ printOk ->
                      <<"app_config_load", "cJSON_PrintUnformatted",
                        IF err = "ESP_OK" THEN "ack_success"
                                          ELSE "ack_failed">>)
       /\ ackTopic' = IF loadOk /\ printOk THEN stored["device_name"]
                                           ELSE ackTopic
  /\ result' = err
  /\ hpc' = "idle"
  /\ UNCHANGED <<pc, envVars, msg, err, delivered, storedCfg, channelCfg,
                 handlerFrame,
                 inbox>>
  /\ UNCHANGED <<stored, app_cfg>>

\* a dispatch that takes a command it does not know for done
RejectedLenient(m) ==
  CASE m = NullParams -> "ESP_ERR_INVALID_ARG"
    [] m # NullParams /\ m.command \in {"missing", "not_a_string"} ->
         "ESP_ERR_INVALID_ARG"
    [] m # NullParams /\ m.command = "unknown" -> "ESP_OK"
    [] OTHER -> "none"

\* remote_config.c:221-228, 258-261: the params the handler refuses and the
\* error it returns for them
Rejected(m) ==
  CASE m = NullParams -> "ESP_ERR_INVALID_ARG"
    [] m # NullParams /\ m.command \in {"missing", "not_a_string"} ->
         "ESP_ERR_INVALID_ARG"
    [] m # NullParams /\ m.command \notin Commands ->
         "ESP_ERR_NOT_SUPPORTED"
    [] OTHER -> "none"

\* a handler that answers ESP_OK whatever the collector returned
CollectorResultDropped(ok) == "ESP_OK"

\* remote_config.c:239, 242: return csi_collector_start(); return
\* csi_collector_stop()
CollectorResult(ok) == IF ok THEN "ESP_OK" ELSE "ESP_FAIL"

\* remote_config.c:219-264: remote_command_handler(params)
DeliverCommand ==
  /\ Delivering
  /\ delivered' = delivered + 1
  /\ err' = "ESP_OK"
  /\ \E m \in inbox \cap CommandMessages :
       LET c == m.command IN
          /\ msg' = m
          /\ CASE Rejected(m) # "none" ->
                    /\ result' = Rejected(m)
                    /\ handlerLog' = <<>>
                    /\ hpc' = "idle"
                    /\ UNCHANGED <<pc, envVars, storedCfg, stored>>
               [] c = "restart" ->
                    /\ result' = "none"
                    /\ handlerLog' = <<>>
                    /\ hpc' = "cmd_restart_wait"
                    /\ UNCHANGED <<pc, envVars, storedCfg, stored>>
               [] c = "start_csi" ->
                    \E ok \in BOOLEAN :
                      /\ collectorRunning' = (ok \/ collectorRunning)
                      /\ result' = CollectorResult(ok)
                      /\ handlerLog' = <<"csi_collector_start">>
                      /\ hpc' = "idle"
                      /\ UNCHANGED <<pc, queue, ntpStarted, mqttStarted,
                                     mqttConnected, produced, storedCfg,
                                     stored>>
               [] c = "stop_csi" ->
                    \E ok \in BOOLEAN :
                      /\ collectorRunning' = (~ok /\ collectorRunning)
                      /\ result' = CollectorResult(ok)
                      /\ handlerLog' = <<"csi_collector_stop">>
                      /\ hpc' = "idle"
                      /\ UNCHANGED <<pc, queue, ntpStarted, mqttStarted,
                                     mqttConnected, produced, storedCfg,
                                     stored>>
               [] c = "calibrate" ->
                    /\ result' = "ESP_OK"
                    /\ handlerLog' = <<>>
                    /\ hpc' = "idle"
                    /\ UNCHANGED <<pc, envVars, storedCfg, stored>>
               [] c = "factory_reset" ->
                    /\ result' = "none"
                    /\ handlerLog' = <<"nvs_flash_erase", "esp_restart">>
                    /\ storedCfg' = 0
                    /\ stored' = [f \in FieldNames |-> "erased"]
                    /\ hpc' = "restarted"
                    /\ pc' = "restarted"
                    /\ UNCHANGED envVars
               [] c = "get_status" ->
                    \E loadOk \in BOOLEAN, printOk \in BOOLEAN :
                      /\ result' = "ESP_OK"
                      /\ handlerLog' =
                           CASE ~loadOk -> <<"app_config_load">>
                             [] loadOk /\ ~printOk ->
                                  <<"app_config_load",
                                    "csi_collector_is_running",
                                    "csi_collector_get_stats",
                                    "cJSON_PrintUnformatted">>
                             [] loadOk /\ printOk ->
                                  <<"app_config_load",
                                    "csi_collector_is_running",
                                    "csi_collector_get_stats",
                                    "cJSON_PrintUnformatted",
                                    "mqtt_client_publish">>
                      /\ hpc' = "idle"
                      /\ UNCHANGED <<pc, envVars, storedCfg, stored>>
  /\ UNCHANGED <<inbox, channelCfg, handlerFrame>>
  /\ UNCHANGED <<app_cfg, ackTopic>>

\* remote_config.c:234-235: vTaskDelay(pdMS_TO_TICKS(2000))
CmdRestartWait ==
  /\ pc # "restarted"
  /\ hpc = "cmd_restart_wait"
  /\ handlerLog' = Append(handlerLog, "vTaskDelay_2000")
  /\ hpc' = "cmd_restart"
  /\ UNCHANGED <<pc, envVars, msg, err, result, delivered, storedCfg,
                 channelCfg, handlerFrame,
                 inbox>>
  /\ UNCHANGED cfgVars

\* remote_config.c:236: esp_restart()
CmdRestart ==
  /\ pc # "restarted"
  /\ hpc = "cmd_restart"
  /\ handlerLog' = Append(handlerLog, "esp_restart")
  /\ hpc' = "restarted"
  /\ pc' = "restarted"
  /\ UNCHANGED <<envVars, msg, err, result, delivered, storedCfg, channelCfg,
                 handlerFrame,
                 inbox>>
  /\ UNCHANGED cfgVars

Remote ==
  \/ DeliverConfig \/ CsiSection \/ MqttLoad \/ MqttSave \/ MqttStop
  \/ MqttWait \/ MqttInit \/ MqttStart \/ NodeSection \/ NodeWait
  \/ NodeRestart \/ Ack \/ DeliverCommand \/ CmdRestartWait \/ CmdRestart

Startup ==
  \/ SystemInit \/ ConfigLoad \/ WebServerStart \/ CsiCollectorSetup
  \/ NtpSetup \/ NtpWait \/ MqttSetup \/ MqttStarted \/ OtaInit
  \/ InitCounters

Tick ==
  \/ LoopTop \/ GetData \/ CorrectTimestamp \/ CheckConnected \/ PublishCsi
  \/ FreeData \/ Stats \/ Metrics \/ OtaCheck \/ HealthGuard \/ LowHeapAlert
  \/ LowHeapWait \/ LowHeapRestart \/ Delay

Supervisor == Startup \/ Tick

Environment == CollectorProduce \/ MqttConnectionChange

Next == Supervisor \/ Environment

Spec == Init /\ [][Next]_vars

FairSpec == Spec /\ WF_vars(Supervisor)

\* The supervisor at the entry of its loop (main.c:192-201) after a start-up
\* with the collector and the MQTT client enabled and started, the clock sync
\* and the update checker disabled, and the remote handlers registered
\* (remote_config.c:314-332).
LoopEntry ==
  /\ pc = "loop"
  /\ config = [csi_enabled |-> TRUE, ntp_enabled |-> FALSE,
               mqtt_enabled |-> TRUE, ota_enabled |-> FALSE,
               ota_auto_update |-> FALSE, device_name |-> "stored"]
  /\ ntp_wait_i = 0
  /\ loop_counter = 0 /\ csi_data_count = 0
  /\ mqtt_publish_count = 0 /\ mqtt_publish_errors = 0
  /\ tickCount = TickModulus - 1
  /\ last_stats_time = tickCount /\ last_ota_check = tickCount
  /\ last_system_metrics = tickCount
  /\ current_time = 0
  /\ csi_data = NoSample
  /\ queue = <<>>
  /\ collectorRunning = TRUE
  /\ ntpStarted = FALSE
  /\ mqttStarted = TRUE /\ mqttConnected = FALSE
  /\ produced = 0
  /\ called = {}
  /\ popped = NoSample
  /\ clockRead = NoClockRead
  /\ sawConnected = FALSE
  /\ attempts = 0
  /\ releases = [i \in 1..MaxSamples |-> 0]
  /\ emitted = {}
  /\ lowHeapLog = <<>>
  /\ heapRead = NoHeapRead
  /\ alertSent = NoAlert
  /\ nameUsed = ""
  /\ sinceStats = 0 /\ sinceMetrics = 0 /\ sinceOta = 0

\* the handlers' task alone, with every remote message: the supervisor is
\* not scheduled
HandlerInit ==
  /\ LoopEntry
  /\ RemoteIdle
  /\ inbox = ConfigMessages \cup CommandMessages
  /\ StreamIdle /\ HttpIdle /\ CodecIdle /\ MessageIdle

HandlerNext == Remote \/ MqttConnectionChange

HandlerSpec == HandlerInit /\ [][HandlerNext]_vars

\* the three fields of a section all of one kind, or of three different kinds
FieldTriples ==
  { t \in [1..3 -> FieldKinds] :
      \/ t[1] = t[2] /\ t[2] = t[3]
      \/ t[1] # t[2] /\ t[2] # t[3] /\ t[1] # t[3] }

\* the update's fields when both sections carry the kinds of t, in the order
\* of the handlers' reads
TripleFields(t) ==
  [f \in FieldNames |->
     CASE f \in {"broker_url", "device_name"} -> t[1]
       [] f \in {"port", "ssid"} -> t[2]
       [] f \in {"topic_prefix", "password"} -> t[3]]

\* updates with an mqtt or a node section whose fields are absent, of another
\* JSON type, or valid
FieldMessages ==
  { [kind |-> "config", csi |-> FALSE, mqtt |-> m, node |-> n, wifi |-> w,
     command |-> "", fields |-> TripleFields(t)] :
       m \in BOOLEAN, n \in BOOLEAN, w \in BOOLEAN, t \in FieldTriples }

FieldInit ==
  /\ LoopEntry
  /\ RemoteIdle
  /\ inbox = FieldMessages
  /\ StreamIdle /\ HttpIdle /\ CodecIdle /\ MessageIdle

FieldNext ==
  \/ DeliverConfig \/ CsiSection \/ MqttLoad \/ MqttSave \/ MqttStop
  \/ MqttWait \/ MqttInit \/ MqttStart \/ NodeSection \/ NodeWait
  \/ NodeRestart \/ Ack \/ MqttConnectionChange

\* the configuration handler alone, with updates of every field kind
FieldSpec == FieldInit /\ [][FieldNext]_vars

\* the update that saves new channel settings and a new device name and does
\* not restart the device
SnapshotMessages ==
  { m \in ConfigUpdates : m.mqtt /\ m.node /\ ~m.wifi /\ ~m.csi }

SnapshotInit ==
  /\ LoopEntry
  /\ RemoteIdle
  /\ inbox = SnapshotMessages
  /\ StreamIdle /\ HttpIdle /\ CodecIdle /\ MessageIdle

\* the collector is running and queues no sample in these runs: every
\* csi_collector_get_data of the loop times out
SnapshotNext ==
  \/ LoopTop \/ GetData \/ Stats \/ Metrics \/ OtaCheck \/ HealthGuard
  \/ LowHeapAlert \/ LowHeapWait \/ LowHeapRestart \/ Delay
  \/ MqttConnectionChange
  \/ DeliverConfig \/ CsiSection \/ MqttLoad \/ MqttSave \/ MqttStop
  \/ MqttWait \/ MqttInit \/ MqttStart \/ NodeSection \/ Ack

\* the supervisor loop running while a configuration update is handled
SnapshotSpec == SnapshotInit /\ [][SnapshotNext]_vars

\* the remote messages that touch the channel or the collector and do not
\* restart the device
RaceMessages ==
  { m \in ConfigUpdates : m.mqtt /\ ~m.csi /\ ~m.node /\ ~m.wifi }
    \cup {CommandMessage("stop_csi"), CommandMessage("start_csi")}

RaceInit ==
  /\ LoopEntry
  /\ RemoteIdle
  /\ inbox = RaceMessages
  /\ StreamIdle /\ HttpIdle /\ CodecIdle /\ MessageIdle

RaceNext ==
  \/ Tick \/ Environment
  \/ DeliverConfig \/ CsiSection \/ MqttLoad \/ MqttSave \/ MqttStop
  \/ MqttWait \/ MqttInit \/ MqttStart \/ NodeSection \/ Ack
  \/ DeliverCommand

\* the supervisor loop running together with the remote handlers
RaceSpec == RaceInit /\ [][RaceNext]_vars

\* ------------------------------------------------- the stream channel
\* websocket_telemetry.h declares the channel's operations; their bodies are
\* not among the repository's files.  The channel is modelled from its
\* specification: the state machine of the design (section 4.2), its
\* cancellation rule (section 5) and its reconnect property (section 8).
\* Transport events (handshake result, send completion) and the reconnect
\* timer are delivered on the channel's own task and may arrive after stop().
supervisorVars == <<pc, taskVars, counterVars, timerVars, current_time,
                    sampleVars, envVars, clockVars, called, emitted,
                    guardVars>>
streamFrame == <<supervisorVars, remoteVars, httpVars,
                  codecVars,
                  messageVars,
                  cfgVars>>

\* the clock of the stream channel advances in halves of the default timeout
ReconnectQuantum == WS_DEFAULT_RECONNECT_MS \div 2
ElapsedCap == WS_DEFAULT_RECONNECT_MS + ReconnectQuantum

\* websocket_telemetry_config_t: the fields the state machine reads
StreamConfigs == [auto_reconnect : BOOLEAN,
                  reconnect_timeout_ms : {ReconnectQuantum,
                                          WS_DEFAULT_RECONNECT_MS}]

ChannelStates == {"Disconnected", "Connecting", "Connected", "Reconnecting",
                  "Closed"}

\* websocket_telemetry_is_connected()
websocket_telemetry_is_connected == wsState = "Connected"

Enter(s) ==
  /\ wsState' = s
  /\ wsHistory' = Append(wsHistory, s)

\* an event delivered after stop() has returned is counted
Late == IF wsStopped THEN wsLate + 1 ELSE wsLate

\* entering Reconnecting arms the reconnect timer when auto_reconnect is set
Armed(pending) ==
  IF wsConfig.auto_reconnect THEN pending \cup {"timer"} ELSE pending

\* websocket_telemetry_start(): Disconnected -> Connecting, the first attempt
StreamStart ==
  /\ wsState = "Disconnected"
  /\ Enter("Connecting")
  /\ wsAttempts' = wsAttempts + 1
  /\ wsPending' = wsPending \cup {"connect"}
  /\ UNCHANGED <<wsConfig, wsElapsed, wsHandshakes, connection_errors,
                 messages_sent, wsSends, wsSendResult, wsStopped, wsLate,
                 wsDelays>>
  /\ UNCHANGED streamFrame

HandshakeOkUnguarded ==
  /\ "connect" \in wsPending
  /\ wsPending' = wsPending \ {"connect"}
  /\ wsLate' = Late
  /\ Enter("Connected")
  /\ wsHandshakes' = wsHandshakes + 1
  /\ UNCHANGED <<wsConfig, wsElapsed, wsAttempts, connection_errors,
                 messages_sent, wsSends, wsSendResult, wsStopped, wsDelays>>
  /\ UNCHANGED streamFrame

\* the handshake of the running attempt succeeds: Connecting -> Connected;
\* a completion that arrives in any other state is discarded
HandshakeOk ==
  /\ "connect" \in wsPending
  /\ wsPending' = wsPending \ {"connect"}
  /\ wsLate' = Late
  /\ IF wsState = "Connecting"
       THEN /\ Enter("Connected")
            /\ wsHandshakes' = wsHandshakes + 1
       ELSE UNCHANGED <<wsState, wsHistory, wsHandshakes>>
  /\ UNCHANGED <<wsConfig, wsElapsed, wsAttempts, connection_errors,
                 messages_sent, wsSends, wsSendResult, wsStopped, wsDelays>>
  /\ UNCHANGED streamFrame

\* the running attempt fails: Connecting -> Reconnecting, one connection
\* error; a failure reported in any other state is discarded
ConnectFailure ==
  /\ "connect" \in wsPending
  /\ wsLate' = Late
  /\ IF wsState = "Connecting"
       THEN /\ Enter("Reconnecting")
            /\ connection_errors' = connection_errors + 1
            /\ wsElapsed' = 0
            /\ wsPending' = Armed(wsPending \ {"connect"})
       ELSE /\ wsPending' = wsPending \ {"connect"}
            /\ UNCHANGED <<wsState, wsHistory, connection_errors, wsElapsed>>
  /\ UNCHANGED <<wsConfig, wsAttempts, wsHandshakes, messages_sent, wsSends,
                 wsSendResult, wsStopped, wsDelays>>
  /\ UNCHANGED streamFrame

TransportErrorReconnectsAtOnce ==
  /\ wsState = "Connected"
  /\ wsAttempts < MaxAttempts
  /\ Enter("Connecting")
  /\ connection_errors' = connection_errors + 1
  /\ wsElapsed' = 0
  /\ wsAttempts' = wsAttempts + 1
  /\ wsPending' = wsPending \cup {"connect"}
  /\ UNCHANGED <<wsConfig, wsHandshakes, messages_sent, wsSends,
                 wsSendResult, wsStopped, wsLate, wsDelays>>
  /\ UNCHANGED streamFrame

\* the transport of a connected channel fails: Connected -> Reconnecting
TransportError ==
  /\ wsState = "Connected"
  /\ Enter("Reconnecting")
  /\ connection_errors' = connection_errors + 1
  /\ wsElapsed' = 0
  /\ wsPending' = Armed(wsPending)
  /\ UNCHANGED <<wsConfig, wsAttempts, wsHandshakes, messages_sent, wsSends,
                 wsSendResult, wsStopped, wsLate, wsDelays>>
  /\ UNCHANGED streamFrame

\* time passes while the reconnect timer is armed
StreamTimePasses ==
  /\ "timer" \in wsPending
  /\ wsElapsed < ElapsedCap
  /\ wsElapsed' = wsElapsed + ReconnectQuantum
  /\ UNCHANGED <<wsState, wsConfig, wsPending, wsAttempts, wsHandshakes,
                 connection_errors, messages_sent, wsSends, wsSendResult,
                 wsStopped, wsLate, wsHistory, wsDelays>>
  /\ UNCHANGED streamFrame

ReconnectTimerEarly ==
  /\ "timer" \in wsPending
  /\ wsLate' = Late
  /\ IF wsState = "Reconnecting"
       THEN /\ wsAttempts < MaxAttempts
            /\ Enter("Connecting")
            /\ wsAttempts' = wsAttempts + 1
            /\ wsDelays' = Append(wsDelays, wsElapsed)
            /\ wsPending' = (wsPending \ {"timer"}) \cup {"connect"}
       ELSE /\ wsPending' = wsPending \ {"timer"}
            /\ UNCHANGED <<wsState, wsHistory, wsAttempts, wsDelays>>
  /\ UNCHANGED <<wsConfig, wsElapsed, wsHandshakes, connection_errors,
                 messages_sent, wsSends, wsSendResult, wsStopped>>
  /\ UNCHANGED streamFrame

\* the reconnect timer fires reconnect_timeout_ms after the failure:
\* Reconnecting -> Connecting, one more attempt; a timer that fires in any
\* other state is discarded
ReconnectTimer ==
  /\ "timer" \in wsPending
  /\ wsElapsed >= wsConfig.reconnect_timeout_ms
  /\ wsLate' = Late
  /\ IF wsState = "Reconnecting"
       THEN /\ wsAttempts < MaxAttempts
            /\ Enter("Connecting")
            /\ wsAttempts' = wsAttempts + 1
            /\ wsDelays' = Append(wsDelays, wsElapsed)
            /\ wsPending' = (wsPending \ {"timer"}) \cup {"connect"}
       ELSE /\ wsPending' = wsPending \ {"timer"}
            /\ UNCHANGED <<wsState, wsHistory, wsAttempts, wsDelays>>
  /\ UNCHANGED <<wsConfig, wsElapsed, wsHandshakes, connection_errors,
                 messages_sent, wsSends, wsSendResult, wsStopped>>
  /\ UNCHANGED streamFrame

\* without auto_reconnect the channel gives up: Reconnecting -> Closed
ReconnectDisabled ==
  /\ wsState = "Reconnecting"
  /\ ~wsConfig.auto_reconnect
  /\ Enter("Closed")
  /\ UNCHANGED <<wsConfig, wsPending, wsElapsed, wsAttempts, wsHandshakes,
                 connection_errors, messages_sent, wsSends, wsSendResult,
                 wsStopped, wsLate, wsDelays>>
  /\ UNCHANGED streamFrame

\* websocket_telemetry_stop(): Connecting, Connected or Reconnecting ->
\* Closed.  What the transport has in flight is not recalled; it is
\* discarded when it arrives.
StreamStop ==
  /\ wsState \in {"Connecting", "Connected", "Reconnecting"}
  /\ Enter("Closed")
  /\ wsStopped' = TRUE
  /\ UNCHANGED <<wsConfig, wsPending, wsElapsed, wsAttempts, wsHandshakes,
                 connection_errors, messages_sent, wsSends, wsSendResult,
                 wsLate, wsDelays>>
  /\ UNCHANGED streamFrame

\* send(message): NotConnected unless the channel is Connected
StreamSend ==
  /\ wsSends < MaxSends
  /\ wsSends' = wsSends + 1
  /\ IF websocket_telemetry_is_connected
       THEN /\ wsPending' = wsPending \cup {"send"}
            /\ wsSendResult' = "pending"
       ELSE /\ wsSendResult' = "NotConnected"
            /\ UNCHANGED wsPending
  /\ UNCHANGED <<wsState, wsConfig, wsElapsed, wsAttempts, wsHandshakes,
                 connection_errors, messages_sent, wsStopped, wsLate,
                 wsHistory, wsDelays>>
  /\ UNCHANGED streamFrame

\* the transport finishes a send: counted when the channel is still
\* Connected, NotConnected otherwise
SendCompletes ==
  /\ "send" \in wsPending
  /\ wsPending' = wsPending \ {"send"}
  /\ wsLate' = Late
  /\ IF websocket_telemetry_is_connected
       THEN /\ messages_sent' = messages_sent + 1
            /\ wsSendResult' = "ESP_OK"
       ELSE /\ wsSendResult' = "NotConnected"
            /\ UNCHANGED messages_sent
  /\ UNCHANGED <<wsState, wsConfig, wsElapsed, wsAttempts, wsHandshakes,
                 connection_errors, wsSends, wsStopped, wsHistory, wsDelays>>
  /\ UNCHANGED streamFrame

Stream ==
  \/ StreamStart \/ HandshakeOk \/ ConnectFailure \/ TransportError
  \/ StreamTimePasses \/ ReconnectTimer \/ ReconnectDisabled \/ StreamStop
  \/ StreamSend \/ SendCompletes

\* the stream channel alone, initialized with any configuration
StreamInit ==
  /\ LoopEntry
  /\ RemoteIdle /\ inbox = {}
  /\ HttpIdle /\ CodecIdle /\ MessageIdle
  /\ wsState = "Disconnected"
  /\ wsConfig \in StreamConfigs
  /\ wsPending = {}
  /\ wsElapsed = 0
  /\ wsAttempts = 0 /\ wsHandshakes = 0
  /\ connection_errors = 0 /\ messages_sent = 0
  /\ wsSends = 0 /\ wsSendResult = "none"
  /\ wsStopped = FALSE /\ wsLate = 0
  /\ wsHistory = <<"Disconnected">>
  /\ wsDelays = <<>>

StreamSpec == StreamInit /\ [][Stream]_vars

\* --------------------------------------------------- the HTTP channel
\* http_telemetry.h declares the channel's operations; their bodies are not
\* among the repository's files.  send() is modelled from its specification
\* (section 4.3): an attempt loop of retry_count attempts in total with a
\* backoff delay between attempts, TransmissionFailed after the last failed
\* attempt, the failure counter incremented once per call.
httpFrame == <<supervisorVars, remoteVars, streamVars,
                  codecVars,
                  messageVars,
                  cfgVars>>

\* http_telemetry_config_t: the field the attempt loop reads
HttpConfigs == [retry_count : 1..MaxRetry]

AttemptOutcomes == {"ok", "timeout"}

\* send() is called: the attempt loop starts
HttpSend ==
  /\ httpPc = "idle"
  /\ httpCalls < MaxCalls
  /\ httpCalls' = httpCalls + 1
  /\ httpPc' = "attempt"
  /\ httpAttempts' = 0
  /\ httpOutcomes' = <<>>
  /\ httpResult' = "pending"
  /\ httpFailedBefore' = requests_failed
  /\ UNCHANGED <<httpConfig, requests_sent, requests_failed>>
  /\ UNCHANGED httpFrame

HttpAttemptCountingEach ==
  /\ httpPc = "attempt"
  /\ \E outcome \in AttemptOutcomes :
       /\ httpAttempts' = httpAttempts + 1
       /\ httpOutcomes' = Append(httpOutcomes, outcome)
       /\ IF outcome = "ok"
            THEN /\ requests_sent' = requests_sent + 1
                 /\ httpResult' = "ESP_OK"
                 /\ httpPc' = "idle"
                 /\ UNCHANGED requests_failed
            ELSE /\ requests_failed' = requests_failed + 1
                 /\ UNCHANGED requests_sent
                 /\ IF httpAttempts + 1 < httpConfig.retry_count
                      THEN /\ httpPc' = "backoff"
                           /\ UNCHANGED httpResult
                      ELSE /\ httpResult' = "TransmissionFailed"
                           /\ httpPc' = "idle"
  /\ UNCHANGED <<httpConfig, httpCalls, httpFailedBefore>>
  /\ UNCHANGED httpFrame

\* one attempt, bounded by timeout_ms: success ends the call; a timeout is
\* followed by the backoff delay, or ends the call after the last attempt
HttpAttempt ==
  /\ httpPc = "attempt"
  /\ \E outcome \in AttemptOutcomes :
       /\ httpAttempts' = httpAttempts + 1
       /\ httpOutcomes' = Append(httpOutcomes, outcome)
       /\ IF outcome = "ok"
            THEN /\ requests_sent' = requests_sent + 1
                 /\ httpResult' = "ESP_OK"
                 /\ httpPc' = "idle"
                 /\ UNCHANGED requests_failed
            ELSE IF httpAttempts + 1 < httpConfig.retry_count
                   THEN /\ httpPc' = "backoff"
                        /\ UNCHANGED <<httpResult, requests_sent,
                                       requests_failed>>
                   ELSE /\ requests_failed' = requests_failed + 1
                        /\ httpResult' = "TransmissionFailed"
                        /\ httpPc' = "idle"
                        /\ UNCHANGED requests_sent
  /\ UNCHANGED <<httpConfig, httpCalls, httpFailedBefore>>
  /\ UNCHANGED httpFrame

\* the backoff delay between two attempts
HttpBackoff ==
  /\ httpPc = "backoff"
  /\ httpPc' = "attempt"
  /\ UNCHANGED <<httpConfig, httpAttempts, httpOutcomes, httpResult,
                 httpCalls, requests_sent, requests_failed, httpFailedBefore>>
  /\ UNCHANGED httpFrame

Http == HttpSend \/ HttpAttempt \/ HttpBackoff

\* the HTTP channel alone, initialized with any retry_count
HttpInit ==
  /\ LoopEntry
  /\ RemoteIdle /\ inbox = {}
  /\ StreamIdle /\ CodecIdle /\ MessageIdle
  /\ httpPc = "idle"
  /\ httpConfig \in HttpConfigs
  /\ httpAttempts = 0
  /\ httpOutcomes = <<>>
  /\ httpResult = "none"
  /\ httpCalls = 0
  /\ requests_sent = 0 /\ requests_failed = 0
  /\ httpFailedBefore = 0

HttpSpec == HttpInit /\ [][Http]_vars

\* ------------------------------------------------------- the wire codec
\* websocket_telemetry.h gives the message types (62-70) and the packed
\* header websocket_msg_header_t (75-80): msg_type, device_id_len,
\* payload_len (16 bits), sequence_num (32 bits).  The functions that build
\* and read a message are not among the repository's files; encode and
\* decode are modelled from the design (section 4.1).  Multi-byte fields are
\* laid out as the target stores the packed structure, low byte first.  A
\* 32-bit value is kept as its two 16-bit halves.
codecFrame == <<supervisorVars, remoteVars, streamVars, httpVars,
                  messageVars,
                  cfgVars>>

\* websocket_msg_type_t: WS_MSG_CSI_DATA = 1 .. WS_MSG_PONG = 7
MessageTypes == 1..7
WS_MSG_CSI_DATA == 1
WS_MSG_BATCH_CSI == 5
WS_MSG_PING == 6

Lo(n) == n % 256
Hi(n) == (n \div 256) % 256
Word(lo, hi) == lo + 256 * hi

\* websocket_msg_header_t as bytes
HeaderBytes(tag, idLen, payloadLen, seq) ==
  <<tag % 256, idLen % 256, Lo(payloadLen), Hi(payloadLen),
    Lo(seq.lo), Hi(seq.lo), Lo(seq.hi), Hi(seq.hi)>>

EncodeTruncating(tag, device_id, payload, seq, buffer_size) ==
  LET limit == IF buffer_size < MaxPayloadLen THEN buffer_size
               ELSE MaxPayloadLen
      kept == IF Len(payload) > limit THEN SubSeq(payload, 1, limit)
              ELSE payload
  IN  [status |-> "OK",
       bytes |-> HeaderBytes(tag, Len(device_id), Len(payload), seq)
                   \o device_id \o kept]

\* encode(tag, device_id, payload): PayloadTooLarge when the payload exceeds
\* the 16-bit limit or the configured buffer size, else the header followed
\* by the device id and the payload
Encode(tag, device_id, payload, seq, buffer_size) ==
  IF Len(payload) > MaxPayloadLen \/ Len(payload) > buffer_size
    THEN [status |-> "PayloadTooLarge", bytes |-> <<>>]
    ELSE [status |-> "OK",
          bytes |-> HeaderBytes(tag, Len(device_id), Len(payload), seq)
                      \o device_id \o payload]

FramingError == [NoDecoded EXCEPT !.status = "FramingError"]

\* the fields of a buffer that holds a whole message
Fields(bytes) ==
  LET idLen == bytes[2]
      payloadLen == Word(bytes[3], bytes[4])
  IN  [status |-> "OK",
       tag |-> bytes[1],
       device_id |-> SubSeq(bytes, HeaderLen + 1, HeaderLen + idLen),
       payload |-> SubSeq(bytes, HeaderLen + idLen + 1,
                          HeaderLen + idLen + payloadLen),
       sequence_num |-> [lo |-> Word(bytes[5], bytes[6]),
                         hi |-> Word(bytes[7], bytes[8])]]

DecodeAnyTag(bytes) ==
  IF Len(bytes) < HeaderLen THEN FramingError
  ELSE IF Len(bytes) < HeaderLen + bytes[2] + Word(bytes[3], bytes[4])
    THEN FramingError
  ELSE Fields(bytes)

DecodeIgnoringId(bytes) ==
  IF Len(bytes) < HeaderLen THEN FramingError
  ELSE IF bytes[1] \notin MessageTypes THEN FramingError
  ELSE IF Len(bytes) < HeaderLen + bytes[2] + Word(bytes[3], bytes[4])
    THEN FramingError
  ELSE [Fields(bytes) EXCEPT
          !.payload = SubSeq(bytes, HeaderLen + 1,
                             HeaderLen + Word(bytes[3], bytes[4]))]

\* decode(bytes): FramingError when the buffer is shorter than the header,
\* the tag is not a message type, or the buffer is shorter than the header
\* and what it declares
Decode(bytes) ==
  IF Len(bytes) < HeaderLen THEN FramingError
  ELSE IF bytes[1] \notin MessageTypes THEN FramingError
  ELSE IF Len(bytes) < HeaderLen + bytes[2] + Word(bytes[3], bytes[4])
    THEN FramingError
  ELSE Fields(bytes)

\* a payload of n bytes
Payload(n) == [i \in 1..n |-> (7 * i) % 256]

SeqMax == [hi |-> MaxPayloadLen, lo |-> MaxPayloadLen]

\* every message type with short device ids and payloads under the default
\* buffer size, and the payload lengths around the two limits
CodecInputs ==
  [tag : MessageTypes, device_id : {<<>>, <<65, 66>>},
   payload : {Payload(0), Payload(3)},
   sequence_num : {SeqZero, SeqMax, [hi |-> 1, lo |-> 256]},
   buffer_size : {WS_DEFAULT_BUFFER_SIZE}]
  \cup
  [tag : {WS_MSG_BATCH_CSI}, device_id : {<<65>>},
   payload : {Payload(WS_DEFAULT_BUFFER_SIZE),
              Payload(WS_DEFAULT_BUFFER_SIZE + 1),
              Payload(MaxPayloadLen), Payload(MaxPayloadLen + 1)},
   sequence_num : {SeqZero},
   buffer_size : {WS_DEFAULT_BUFFER_SIZE, 2 * (MaxPayloadLen + 1)}]

\* what may reach decode instead of the bytes that were sent
Malformations == {"intact", "empty", "cut_header", "cut_payload", "bad_tag_0",
                  "bad_tag_8"}

Malformed(bytes, how) ==
  CASE how = "intact" -> bytes
    [] how = "empty" -> <<>>
    [] how = "cut_header" -> SubSeq(bytes, 1, HeaderLen - 1)
    [] how = "cut_payload" -> SubSeq(bytes, 1, Len(bytes) - 1)
    [] how = "bad_tag_0" -> [bytes EXCEPT ![1] = 0]
    [] how = "bad_tag_8" -> [bytes EXCEPT ![1] = 8]

\* encode is applied to the input
CodecEncode ==
  /\ codecPc = "input"
  /\ wire' = Encode(codecIn.tag, codecIn.device_id, codecIn.payload,
                    codecIn.sequence_num, codecIn.buffer_size)
  /\ codecPc' = "encoded"
  /\ UNCHANGED <<codecIn, received, decoded>>
  /\ UNCHANGED codecFrame

\* the bytes travel: they arrive as sent, cut short or with another tag
CodecReceive ==
  /\ codecPc = "encoded"
  /\ wire.status = "OK"
  /\ \E how \in Malformations :
       /\ how = "cut_payload" => Len(wire.bytes) > HeaderLen
       /\ received' = Malformed(wire.bytes, how)
  /\ codecPc' = "received"
  /\ UNCHANGED <<codecIn, wire, decoded>>
  /\ UNCHANGED codecFrame

\* decode is applied to what arrived
CodecDecode ==
  /\ codecPc = "received"
  /\ decoded' = Decode(received)
  /\ codecPc' = "decoded"
  /\ UNCHANGED <<codecIn, wire, received>>
  /\ UNCHANGED codecFrame

Codec == CodecEncode \/ CodecReceive \/ CodecDecode

\* the codec alone, applied to any of the inputs
CodecInit ==
  /\ LoopEntry
  /\ RemoteIdle /\ inbox = {}
  /\ StreamIdle /\ HttpIdle /\ MessageIdle
  /\ codecPc = "input"
  /\ codecIn \in CodecInputs
  /\ wire = NoWire
  /\ received = <<>>
  /\ decoded = NoDecoded

CodecSpec == CodecInit /\ [][Codec]_vars

\* ------------------------------- the send path of the stream channel
\* The operations of a connected stream channel, modelled from the design
\* (sections 3, 4.2 and 8): every outgoing message is offered to the send
\* buffer, which is bounded by buffer_size and drops the newest message on
\* overflow with an error event; the channel's task transmits the buffered
\* messages in order and numbers them; ping() records its dispatch time and
\* the matching Pong updates the latency.
messageFrame == <<supervisorVars, remoteVars, httpVars, codecVars,
                  cfgVars>>
streamRest == <<wsState, wsConfig, wsPending, wsElapsed, wsAttempts,
                wsHandshakes, connection_errors, wsSends, wsSendResult,
                wsStopped, wsLate, wsHistory, wsDelays>>

\* websocket_csi_packet_t without its arrays: timestamp, mac_address, rssi,
\* channel, data_length
SampleBytes == 8 + 6 + 1 + 2 + 2

SeqNextSaturating(s) ==
  IF s.lo = MaxPayloadLen /\ s.hi = MaxPayloadLen THEN s
  ELSE IF s.lo = MaxPayloadLen THEN [hi |-> s.hi + 1, lo |-> 0]
  ELSE [hi |-> s.hi, lo |-> s.lo + 1]

\* uint32_t sequence_num + 1: the low half carries into the high half, and
\* the high half wraps
SeqNext(s) ==
  IF s.lo = MaxPayloadLen
    THEN [hi |-> (s.hi + 1) % (MaxPayloadLen + 1), lo |-> 0]
    ELSE [hi |-> s.hi, lo |-> s.lo + 1]

RECURSIVE BufferedBytes(_)
BufferedBytes(buffer) ==
  IF buffer = <<>> THEN 0
  ELSE Head(buffer).size + BufferedBytes(Tail(buffer))

\* one BatchCsi message carrying the samples 1..n in order
BatchMessage(n) ==
  [tag |-> WS_MSG_BATCH_CSI, samples |-> [i \in 1..n |-> i],
   size |-> HeaderLen + n * SampleBytes]

SingleMessage(size) ==
  [tag |-> WS_MSG_CSI_DATA, samples |-> <<1>>, size |-> size]

PingMessage == [tag |-> WS_MSG_PING, samples |-> <<>>, size |-> HeaderLen]

\* the sizes of the messages handed to send(): one sample, and more than
\* half of the default buffer
MessageSizes == {HeaderLen + SampleBytes,
                 HeaderLen + WS_DEFAULT_BUFFER_SIZE \div 2}

BatchSizes == {0, 2, WS_MAX_CSI_BATCH_SIZE, WS_MAX_CSI_BATCH_SIZE + 1}

Fits(m) == BufferedBytes(sendBuffer) + m.size <= wsBufferSize

OfferDroppingOldest(m) ==
  IF Fits(m)
    THEN /\ sendBuffer' = Append(sendBuffer, m)
         /\ wsOpResult' = "ESP_OK"
         /\ UNCHANGED wsEvents
    ELSE /\ sendBuffer' = <<m>>
         /\ wsOpResult' = "ESP_OK"
         /\ UNCHANGED wsEvents

\* a message is offered to the send buffer: kept behind the earlier ones
\* when it fits; otherwise it is the one dropped and an error event is
\* surfaced
Offer(m) ==
  IF Fits(m)
    THEN /\ sendBuffer' = Append(sendBuffer, m)
         /\ wsOpResult' = "ESP_OK"
         /\ UNCHANGED wsEvents
    ELSE /\ wsOpResult' = "ESP_FAIL"
         /\ wsEvents' = Append(wsEvents, "send_buffer_overflow")
         /\ UNCHANGED sendBuffer

NotConnected ==
  /\ wsOpResult' = "NotConnected"
  /\ UNCHANGED <<sendBuffer, wsEvents>>

\* send(message)
MessageSend ==
  /\ wsOps < MaxOps
  /\ wsOps' = wsOps + 1
  /\ \E size \in MessageSizes :
       /\ wsOp' = [op |-> "send", n |-> size]
       /\ IF websocket_telemetry_is_connected
            THEN Offer(SingleMessage(size))
            ELSE NotConnected
  /\ UNCHANGED <<wsBufferSize, sequence_num, wsWire, bytes_sent,
                 messages_received, avg_latency_ms, wsPing, wsPings, wsClock>>
  /\ UNCHANGED <<streamRest, messages_sent>>
  /\ UNCHANGED messageFrame

SendBatchUnchecked ==
  /\ wsOps < MaxOps
  /\ wsOps' = wsOps + 1
  /\ \E n \in BatchSizes :
       /\ wsOp' = [op |-> "sendBatch", n |-> n]
       /\ IF ~websocket_telemetry_is_connected THEN NotConnected
          ELSE Offer(BatchMessage(n))
  /\ UNCHANGED <<wsBufferSize, sequence_num, wsWire, bytes_sent,
                 messages_received, avg_latency_ms, wsPing, wsPings, wsClock>>
  /\ UNCHANGED <<streamRest, messages_sent>>
  /\ UNCHANGED messageFrame

\* sendBatch(samples): more than 50 samples are refused, none sends nothing,
\* otherwise one BatchCsi message with the samples is offered
SendBatch ==
  /\ wsOps < MaxOps
  /\ wsOps' = wsOps + 1
  /\ \E n \in BatchSizes :
       /\ wsOp' = [op |-> "sendBatch", n |-> n]
       /\ IF n > WS_MAX_CSI_BATCH_SIZE
            THEN /\ wsOpResult' = "InvalidArgument"
                 /\ UNCHANGED <<sendBuffer, wsEvents>>
          ELSE IF n = 0
            THEN /\ wsOpResult' = "ESP_OK"
                 /\ UNCHANGED <<sendBuffer, wsEvents>>
          ELSE IF ~websocket_telemetry_is_connected THEN NotConnected
          ELSE Offer(BatchMessage(n))
  /\ UNCHANGED <<wsBufferSize, sequence_num, wsWire, bytes_sent,
                 messages_received, avg_latency_ms, wsPing, wsPings, wsClock>>
  /\ UNCHANGED <<streamRest, messages_sent>>
  /\ UNCHANGED messageFrame

\* the channel's task transmits the oldest buffered message with the next
\* sequence number
Transmit ==
  /\ websocket_telemetry_is_connected
  /\ sendBuffer # <<>>
  /\ LET m == Head(sendBuffer)
     IN  /\ wsWire' = Append(wsWire,
                             [tag |-> m.tag, samples |-> m.samples,
                              size |-> m.size, sequence_num |-> sequence_num])
         /\ bytes_sent' = bytes_sent + m.size
  /\ sendBuffer' = Tail(sendBuffer)
  /\ sequence_num' = SeqNext(sequence_num)
  /\ messages_sent' = messages_sent + 1
  /\ wsOp' = [op |-> "transmit", n |-> 0]
  /\ UNCHANGED <<wsOpResult, wsOps, wsBufferSize, wsEvents, messages_received,
                 avg_latency_ms, wsPing, wsPings, wsClock>>
  /\ UNCHANGED streamRest
  /\ UNCHANGED messageFrame

\* websocket_telemetry_ping(): a Ping is offered and its dispatch time kept
MessagePing ==
  /\ wsOps < MaxOps
  /\ wsOps' = wsOps + 1
  /\ wsOp' = [op |-> "ping", n |-> wsPings + 1]
  /\ IF websocket_telemetry_is_connected
       THEN /\ Offer(PingMessage)
            /\ IF Fits(PingMessage)
                 THEN /\ wsPings' = wsPings + 1
                      /\ wsPing' = [id |-> wsPings + 1, at |-> wsClock]
                 ELSE UNCHANGED <<wsPing, wsPings>>
       ELSE /\ NotConnected
            /\ UNCHANGED <<wsPing, wsPings>>
  /\ UNCHANGED <<wsBufferSize, sequence_num, wsWire, bytes_sent,
                 messages_received, avg_latency_ms, wsClock>>
  /\ UNCHANGED <<streamRest, messages_sent>>
  /\ UNCHANGED messageFrame

\* the rolling average of the latency: the first measurement, then the mean
\* of the average and the new measurement
RollingAverage(avg, latency) ==
  IF avg = 0 THEN latency ELSE (avg + latency + 1) \div 2

PongArrivesUnmatched ==
  /\ wsOps < MaxOps
  /\ wsOps' = wsOps + 1
  /\ websocket_telemetry_is_connected
  /\ \E id \in {wsPing.id, wsPing.id + 1} :
       /\ id > 0
       /\ id = wsPing.id =>
            /\ wsClock > wsPing.at
            /\ \A i \in DOMAIN sendBuffer : sendBuffer[i].tag # WS_MSG_PING
       /\ wsOp' = [op |-> "pong", n |-> id]
       /\ avg_latency_ms' = RollingAverage(avg_latency_ms, wsClock + 1)
       /\ messages_received' = messages_received + 1
       /\ wsPing' = NoPing
  /\ UNCHANGED <<wsOpResult, wsBufferSize, sequence_num, sendBuffer, wsWire,
                 wsEvents, bytes_sent, wsPings, wsClock>>
  /\ UNCHANGED <<streamRest, messages_sent>>
  /\ UNCHANGED messageFrame

\* a Pong arrives.  The Pong that answers the outstanding Ping arrives after
\* the Ping has left, at a later reading of the clock; it updates the latency
\* and is counted.  Any other Pong is discarded.
PongArrives ==
  /\ wsOps < MaxOps
  /\ wsOps' = wsOps + 1
  /\ websocket_telemetry_is_connected
  /\ \E id \in {wsPing.id, wsPing.id + 1} :
       /\ id > 0
       /\ id = wsPing.id =>
            /\ wsClock > wsPing.at
            /\ \A i \in DOMAIN sendBuffer : sendBuffer[i].tag # WS_MSG_PING
       /\ wsOp' = [op |-> "pong", n |-> id]
       /\ IF wsPing # NoPing /\ id = wsPing.id
            THEN /\ avg_latency_ms' =
                      RollingAverage(avg_latency_ms, wsClock - wsPing.at)
                 /\ messages_received' = messages_received + 1
                 /\ wsPing' = NoPing
            ELSE UNCHANGED <<avg_latency_ms, messages_received, wsPing>>
  /\ UNCHANGED <<wsOpResult, wsBufferSize, sequence_num, sendBuffer, wsWire,
                 wsEvents, bytes_sent, wsPings, wsClock>>
  /\ UNCHANGED <<streamRest, messages_sent>>
  /\ UNCHANGED messageFrame

\* a millisecond passes
MessageTimePasses ==
  /\ wsOps < MaxOps
  /\ wsOps' = wsOps + 1
  /\ wsClock' = wsClock + 1
  /\ wsOp' = [op |-> "tick", n |-> 0]
  /\ UNCHANGED <<wsOpResult, wsBufferSize, sequence_num, sendBuffer, wsWire,
                 wsEvents, bytes_sent, messages_received, avg_latency_ms,
                 wsPing, wsPings>>
  /\ UNCHANGED <<streamRest, messages_sent>>
  /\ UNCHANGED messageFrame

\* websocket_telemetry_stop() on the connected channel
MessageStop ==
  /\ wsOps < MaxOps
  /\ wsOps' = wsOps + 1
  /\ wsOp' = [op |-> "stop", n |-> 0]
  /\ wsState \in {"Connecting", "Connected", "Reconnecting"}
  /\ Enter("Closed")
  /\ wsStopped' = TRUE
  /\ UNCHANGED <<wsConfig, wsPending, wsElapsed, wsAttempts, wsHandshakes,
                 connection_errors, messages_sent, wsSends, wsSendResult,
                 wsLate, wsDelays>>
  /\ UNCHANGED <<wsOpResult, wsBufferSize, sequence_num, sendBuffer, wsWire,
                 wsEvents, bytes_sent, messages_received, avg_latency_ms,
                 wsPing, wsPings, wsClock>>
  /\ UNCHANGED messageFrame

Message ==
  \/ MessageSend \/ SendBatch \/ Transmit \/ MessagePing \/ PongArrives
  \/ MessageTimePasses \/ MessageStop

\* the last sequence numbers before the wrap
SeqBeforeWrap == [hi |-> MaxPayloadLen, lo |-> MaxPayloadLen - 1]

\* a stream channel that has just connected at its first attempt, numbering
\* its messages from 0 or from just below 2^32
MessageInit ==
  /\ LoopEntry
  /\ RemoteIdle /\ inbox = {}
  /\ HttpIdle /\ CodecIdle
  /\ wsState = "Connected"
  /\ wsConfig = [auto_reconnect |-> TRUE,
                 reconnect_timeout_ms |-> WS_DEFAULT_RECONNECT_MS]
  /\ wsPending = {}
  /\ wsElapsed = 0
  /\ wsAttempts = 1 /\ wsHandshakes = 1
  /\ connection_errors = 0 /\ messages_sent = 0
  /\ wsSends = 0 /\ wsSendResult = "none"
  /\ wsStopped = FALSE /\ wsLate = 0
  /\ wsHistory = <<"Disconnected", "Connecting", "Connected">>
  /\ wsDelays = <<>>
  /\ wsOp = NoOp /\ wsOpResult = "none" /\ wsOps = 0
  /\ wsBufferSize = WS_DEFAULT_BUFFER_SIZE
  /\ sequence_num \in {SeqZero, SeqBeforeWrap}
  /\ sendBuffer = <<>> /\ wsWire = <<>> /\ wsEvents = <<>>
  /\ bytes_sent = 0 /\ messages_received = 0 /\ avg_latency_ms = 0
  /\ wsPing = NoPing /\ wsPings = 0
  /\ wsClock = 0

MessageSpec == MessageInit /\ [][Message]_vars

\* ------------------------------------------------------------ properties

LowHeapPath == {"low_heap_alert", "low_heap_wait", "low_heap_restart",
                "restarted"}
SamplePath == {"timestamp", "check_connected", "publish", "free_data"}
Held == csi_data # NoSample

IsPrefix(s, t) == /\ Len(s) <= Len(t)
                  /\ \A i \in 1..Len(s) : s[i] = t[i]

LowHeapSequences ==
  { <<"low_heap", a, "wait_5000", "restart">> : a \in {"alert_ok", "alert_failed"} }

C1_Order ==
  /\ \E t \in LowHeapSequences : IsPrefix(lowHeapLog, t)
  /\ (heapRead # NoHeapRead /\ heapRead < LowHeapThreshold)
        => (pc \in LowHeapPath /\ lowHeapLog # <<>>)
  /\ lowHeapLog # <<>> => pc \in LowHeapPath
  /\ pc = "low_heap_alert" => Len(lowHeapLog) = 1
  /\ pc = "low_heap_wait" => Len(lowHeapLog) = 2
  /\ pc = "low_heap_restart" => Len(lowHeapLog) = 3
  /\ pc = "restarted" => Len(lowHeapLog) = 4
  /\ (pc \in LowHeapPath /\ pc # "restarted") => ENABLED Tick

\* C1: the first tick that reads free heap below 10,000 bytes makes exactly
\* one alert attempt, then waits 5 s, then requests exactly one restart, in
\* that order, whether the alert succeeded or failed; no step of the path is
\* blocked, and no tick, alert or restart follows the restart.
C1_LowHeapRestart ==
  /\ []C1_Order
  /\ [][pc # "restarted"]_vars

C1_Witness ==
  /\ pc = "restarted"
  /\ lowHeapLog = <<"low_heap", "alert_failed", "wait_5000", "restart">>
  /\ loop_counter > 1

Released == {i \in 1..MaxSamples : releases[i] >= 1}
QueuedIds == {queue[i].id : i \in 1..Len(queue)}

C2_Ownership ==
  /\ \A i \in 1..MaxSamples : releases[i] <= 1
  /\ Held => /\ pc \in SamplePath
             /\ csi_data.id \in 1..produced
             /\ releases[csi_data.id] = 0
  /\ pc \in SamplePath => Held
  /\ \A i \in QueuedIds : releases[i] = 0
  /\ Cardinality(Released) = csi_data_count - (IF Held THEN 1 ELSE 0)

C2_ReleaseStep ==
  releases' # releases =>
    /\ pc = "free_data" /\ pc' = "stats"
    /\ attempts = (IF sawConnected THEN 1 ELSE 0)
    /\ releases' = [releases EXCEPT ![csi_data.id] = 1]
    /\ csi_data' = NoSample

C2_EmptyPop ==
  (pc = "get_data" /\ pc' # pc /\ queue = <<>>) =>
    (pc' = "stats" /\ releases' = releases /\ csi_data' = NoSample)

\* C2: every sample the supervisor pops is released exactly once, after its
\* transmission attempt has completed (published, failed, or dropped because
\* the channel is not connected); a tick whose pop returned nothing releases
\* nothing, and no sample is held when the housekeeping or the low-heap path
\* runs.
C2_ReleasedExactlyOnce ==
  /\ []C2_Ownership
  /\ [][C2_ReleaseStep /\ C2_EmptyPop]_vars

C2_Witness ==
  /\ pc = "stats" /\ emitted = {"free"}
  /\ releases[1] = 1 /\ releases[2] = 1
  /\ mqtt_publish_errors = 1 /\ mqtt_publish_count = 0

C3_Attempts ==
  /\ attempts <= 1
  /\ attempts > 0 => (Held /\ sawConnected /\ pc = "free_data")
  /\ pc = "publish" => (Held /\ sawConnected /\ attempts = 0)
  /\ \A i \in 1..Len(queue) : queue[i].id = csi_data_count + i

C3_Step ==
  /\ (pc = "check_connected" /\ pc' # pc) =>
        /\ sawConnected' = mqttConnected
        /\ pc' = (IF mqttConnected THEN "publish" ELSE "free_data")
  /\ (pc = "free_data" /\ pc' # pc) =>
        attempts = (IF sawConnected THEN 1 ELSE 0)
  /\ attempts' > attempts =>
        (pc = "publish" /\ csi_data' = csi_data /\ releases[csi_data.id] = 0)
  /\ queue' # queue =>
        \/ (pc = "get_data" /\ pc' # pc /\ queue # <<>> /\ queue' = Tail(queue))
        \/ (pc' = pc /\ Len(queue') = Len(queue) + 1
              /\ queue'[Len(queue')].id = produced + 1)

\* C3: a popped sample gets exactly one transmission attempt if the channel
\* is connected when the sample is processed and none otherwise; a sample
\* whose attempt fails or that meets a disconnected channel is dropped: it is
\* never put back in the queue nor attempted again.
C3_OneAttemptOrDrop ==
  /\ []C3_Attempts
  /\ [][C3_Step]_vars

C3_Witness ==
  /\ pc = "free_data" /\ Held /\ csi_data.id = 2
  /\ sawConnected /\ attempts = 1
  /\ mqtt_publish_errors = 1
  /\ releases[1] = 1

\* the value the clock returned, in microseconds
ClockMicros == clockRead.tv_sec * 1000000 + clockRead.tv_usec

\* C4 as claimed: the timestamp is overwritten with the clock's time whenever
\* the clock is synchronized, and left as produced when it is not.
C4_AsClaimed ==
  pc \in {"check_connected", "publish", "free_data"} =>
    IF clockRead.status = "unsynchronized"
      THEN csi_data = popped
      ELSE csi_data = [popped EXCEPT !.timestamp = ClockMicros]

\* C4 (amended): the timestamp is overwritten with the clock's corrected time
\* if the clock is synchronized and the read of the corrected time succeeds;
\* it is left exactly as produced if the clock is not synchronized or the
\* read fails; no other field of the sample is changed.
C4_TimestampCorrection ==
  /\ pc = "timestamp" => csi_data = popped
  /\ pc \in {"check_connected", "publish", "free_data"} =>
       IF clockRead.status = "ok"
         THEN csi_data = [popped EXCEPT !.timestamp = ClockMicros]
         ELSE /\ clockRead.status \in {"unsynchronized", "failed"}
              /\ csi_data = popped

C4_Witness ==
  /\ pc = "free_data"
  /\ clockRead.status = "ok"
  /\ csi_data.timestamp = 1000007 /\ popped.timestamp = 5
  /\ csi_data.rssi = popped.rssi

\* C5: a tick removes at most one sample from the collector queue: after n
\* ticks at most n samples have been consumed, however many are queued.
C5_OnePopPerTick ==
  /\ csi_data_count <= loop_counter
  /\ produced - Len(queue) = csi_data_count

C5_Witness ==
  /\ pc = "delay"
  /\ loop_counter = 1 /\ csi_data_count = 1
  /\ Len(queue) >= 1

LoopPcs == {"loop", "get_data", "timestamp", "check_connected", "publish",
            "free_data", "stats", "metrics", "ota_check", "health", "delay"}
StartupPcs == {"system_init", "config_load", "web_server", "csi_collector",
               "ntp", "ntp_wait", "mqtt", "mqtt_started", "ota",
               "init_counters"}

\* C6 as claimed: a metrics snapshot is published on a tick if and only if
\* the channel is connected on that tick and at least 300 s have really
\* elapsed since the previous metrics publish (or since loop start).
C6_AsClaimed ==
  [][(pc = "metrics" /\ pc' = "ota_check") =>
       ((emitted' = {"mqtt_publish_system_metrics"}) <=>
          (mqttConnected /\ sinceMetrics >= MetricsPeriod))]_vars

C7_Timer ==
  pc \in LoopPcs =>
    sinceStats = Min(TickDiff(tickCount, last_stats_time), StatsPeriod)

NetworkOutputs == {"mqtt_client_publish_csi_data", "mqtt_publish_system_metrics",
                   "mqtt_publish_device_status", "mqtt_publish_alert",
                   "ota_check_ok", "ota_check_failed"}

C7_Step ==
  (pc = "stats" /\ pc' = "metrics") =>
    /\ (emitted' = {"stats_log"}) <=> (sinceStats >= StatsPeriod)
    /\ emitted' \cap NetworkOutputs = {}
    /\ emitted' = {"stats_log"} =>
         (sinceStats' = 0 /\ last_stats_time' = tickCount)
    /\ emitted' # {"stats_log"} =>
         (emitted' = {} /\ UNCHANGED <<last_stats_time, sinceStats>>)
    /\ UNCHANGED <<counterVars, envVars, sampleVars, last_system_metrics,
                   last_ota_check, sinceMetrics, sinceOta>>

\* C7: the stats snapshot is emitted on a tick exactly when at least 30 s
\* have elapsed since the previous emission (or since loop start), whatever
\* the state of the channel and of the clock; emitting it sends nothing on a
\* network channel and touches no publish counter.
C7_StatsEvery30s ==
  /\ []C7_Timer
  /\ [][C7_Step]_vars

C7_Witness ==
  /\ pc = "metrics" /\ emitted = {"stats_log"}
  /\ ~mqttConnected /\ ~ntpStarted
  /\ loop_counter = 3 /\ sinceStats = 0
  /\ sinceMetrics = MetricsPeriod

\* "auto-update is enabled": the update checker is enabled and set to
\* update automatically
AutoUpdate == config.ota_enabled /\ config.ota_auto_update

C8_Timer ==
  /\ (pc \in LoopPcs /\ AutoUpdate) =>
       sinceOta = Min(TickDiff(tickCount, last_ota_check), OtaPeriod)
  /\ "ota_check_ok" \in emitted \/ "ota_check_failed" \in emitted =>
       (pc = "health" /\ AutoUpdate /\ sinceOta = 0
          /\ last_ota_check = current_time)

C8_Step ==
  (pc = "ota_check" /\ pc' # pc) =>
    /\ pc' = "health"
    /\ (emitted' \in {{"ota_check_ok"}, {"ota_check_failed"}}) <=>
         (AutoUpdate /\ sinceOta >= OtaPeriod)
    /\ emitted' \in {{"ota_check_ok"}, {"ota_check_failed"}, {}}
    /\ emitted' # {} => (sinceOta' = 0 /\ last_ota_check' = current_time)
    /\ emitted' = {} => UNCHANGED <<last_ota_check, sinceOta>>
    /\ UNCHANGED <<taskVars, counterVars, sampleVars, envVars, guardVars,
                   last_stats_time, last_system_metrics, current_time,
                   tickCount, sinceStats, sinceMetrics>>

\* C8: the update check is invoked on a tick if and only if auto-update is
\* enabled and at least 300 s have elapsed since the previous invocation (or
\* since loop start); it is never invoked with auto-update disabled; a check
\* that fails changes nothing but the check timer, exactly as one that
\* succeeds: the loop goes on and the next check is 300 s later.
C8_UpdateCheckEvery300s ==
  /\ []C8_Timer
  /\ [][C8_Step]_vars

C8_Witness ==
  /\ pc = "health" /\ emitted = {"ota_check_failed"}
  /\ sinceOta = 0 /\ loop_counter = 3
  /\ ~mqttConnected

Rank ==
  [p \in LoopPcs |->
     CASE p = "loop" -> 0
       [] p = "get_data" -> 1
       [] p = "timestamp" -> 2
       [] p = "check_connected" -> 3
       [] p = "publish" -> 4
       [] p = "free_data" -> 5
       [] p = "stats" -> 6
       [] p = "metrics" -> 7
       [] p = "ota_check" -> 8
       [] p = "health" -> 9
       [] p = "delay" -> 10]

\* a running supervisor can always take its next step, short of the number
\* of iterations explored
C9_Running ==
  (pc \in LoopPcs /\ ~(pc = "delay" /\ loop_counter >= MaxLoops)) =>
    ENABLED Tick

C9_Step ==
  /\ pc # "restarted"
  /\ (pc \in LoopPcs /\ pc' # pc) =>
       \/ pc' \in LoopPcs /\ Rank[pc'] > Rank[pc]
       \/ pc = "delay" /\ pc' = "loop"
       \/ /\ pc = "health" /\ pc' = "low_heap_alert"
          /\ heapRead' < LowHeapThreshold
  /\ (pc \in LowHeapPath /\ pc' # pc) => pc' \in LowHeapPath
  /\ (pc = "loop" /\ pc' # pc) => loop_counter' = loop_counter + 1
  /\ (pc = "check_connected" /\ pc' # pc /\ mqttConnected) => pc' = "publish"
  /\ (pc = "timestamp" /\ pc' # pc) => pc' = "check_connected"

\* C9: once the loop runs, no state of the clock or of the channel stops it:
\* every step of a tick can be taken and moves the tick forward, a sample
\* that meets a connected channel is published whatever happened before, and
\* the loop is left only from the heap guard into the low-heap path, whose
\* end, the restart, is terminal.
C9_DegradedKeepsRunning ==
  /\ []C9_Running
  /\ [][C9_Step]_vars

C9_Witness ==
  /\ pc = "free_data" /\ csi_data.id = 2
  /\ sawConnected /\ attempts = 1
  /\ csi_data_count = 2 /\ mqtt_publish_count = 1 /\ mqtt_publish_errors = 0
  /\ clockRead.status = "ok"
  /\ loop_counter = 3

C10_Startup ==
  /\ pc \in StartupPcs => ENABLED Startup
  /\ ntp_wait_i <= NtpWaitPolls
  /\ pc = "deleted" =>
       /\ called = {}
       /\ ~collectorRunning /\ ~ntpStarted /\ ~mqttStarted /\ ~mqttConnected
       /\ queue = <<>>
  /\ pc = "init_counters" =>
       /\ "system_init" \in called
       /\ ("app_config_load" \in called) # ("app_config_set_defaults" \in called)
       /\ "web_server_start" \in called
       /\ "csi_collector_init" \in called <=> config.csi_enabled
       /\ "ntp_sync_init" \in called <=> config.ntp_enabled
       /\ "mqtt_client_init" \in called <=> config.mqtt_enabled
       /\ "ota_updater_init" \in called
       /\ collectorRunning => "csi_collector_start" \in called
       /\ ntpStarted => "ntp_sync_start" \in called
       /\ mqttStarted => {"mqtt_client_start",
                          "mqtt_client_register_callback"} \subseteq called

C10_Step ==
  /\ (pc \in StartupPcs /\ pc' \notin StartupPcs) =>
       \/ pc = "init_counters" /\ pc' = "loop"
       \/ pc = "system_init" /\ pc' = "deleted"
  /\ pc # "deleted"
  /\ (pc = "ntp_wait" /\ pc' = pc /\ ntp_wait_i' # ntp_wait_i) =>
       (ntp_wait_i < NtpWaitPolls /\ ntp_wait_i' = ntp_wait_i + 1)
  /\ (pc = "config_load" /\ pc' # pc) => pc' = "web_server"

\* C10: during start-up a failure of the web server, the CSI collector, the
\* clock sync, the MQTT channel or the update checker touches that subsystem
\* only: every other enabled subsystem is still initialized, and the loop is
\* still entered; a failed configuration load falls back to the defaults;
\* only a failed base system initialization ends the task before the loop,
\* and then no collaborator has been called.
C10_StartupIsolation ==
  /\ []C10_Startup
  /\ [][C10_Step]_vars

C10_Witness ==
  /\ pc = "init_counters"
  /\ {"app_config_set_defaults", "web_server_failed", "csi_collector_init",
      "mqtt_client_start", "ntp_sync_init", "ota_updater_failed"}
       \subseteq called
  /\ "csi_collector_start" \notin called
  /\ "ntp_sync_start" \notin called
  /\ ~mqttStarted

HousekeepingDone == {"metrics", "ota_check", "health", "delay"}

C11_Reached ==
  /\ (pc = "loop" /\ ~collectorRunning) => ENABLED LoopTop
  /\ (pc = "get_data" /\ queue = <<>>) => ENABLED GetData
  /\ pc \in {"stats", "metrics", "ota_check", "health"} => ENABLED Tick
  /\ pc \in (HousekeepingDone \cup LowHeapPath) =>
       (current_time = tickCount /\ sinceStats < StatsPeriod)
  /\ (pc \in {"health", "delay"} /\ AutoUpdate) => sinceOta < OtaPeriod
  /\ pc = "delay" => (heapRead # NoHeapRead /\ heapRead >= LowHeapThreshold)
  /\ pc = "low_heap_alert" =>
       (heapRead # NoHeapRead /\ heapRead < LowHeapThreshold)
  /\ pc \in {"loop", "get_data", "stats", "metrics", "ota_check", "health"} =>
       heapRead = NoHeapRead

C11_Step ==
  /\ (pc = "loop" /\ pc' # pc /\ ~collectorRunning) =>
       (pc' = "stats" /\ UNCHANGED <<queue, csi_data, csi_data_count>>)
  /\ (pc = "get_data" /\ pc' # pc /\ queue = <<>>) =>
       (pc' = "stats" /\ UNCHANGED <<queue, csi_data, csi_data_count>>)
  /\ (pc = "stats" /\ pc' # pc) => pc' = "metrics"
  /\ (pc = "metrics" /\ pc' # pc) => pc' = "ota_check"
  /\ (pc = "ota_check" /\ pc' # pc) => pc' = "health"
  /\ (pc = "health" /\ pc' # pc) =>
       /\ heapRead' \in HeapValues
       /\ pc' = (IF heapRead' < LowHeapThreshold THEN "low_heap_alert"
                                                  ELSE "delay")

\* C11: a tick never blocks: with the collector not running no pop is
\* attempted, and a pop on an empty queue times out; in both cases the tick
\* goes on through the stats, metrics and update-check steps to the heap
\* guard, so on every tick a period that has elapsed fires its action and a
\* heap that is low is detected.
C11_TickNeverBlocks ==
  /\ []C11_Reached
  /\ [][C11_Step]_vars

C11_Witness ==
  /\ pc = "low_heap_alert"
  /\ collectorRunning /\ produced = 0 /\ csi_data_count = 0
  /\ loop_counter = 3
  /\ sinceStats = 0

BusinessCalls == {"csi_collector_start", "csi_collector_stop",
                  "csi_collector_update_config", "app_config_save_ok",
                  "app_config_save_failed", "nvs_flash_erase", "esp_restart"}
ChannelCalls == {"mqtt_client_stop", "mqtt_client_init", "mqtt_client_start",
                 "mqtt_client_publish", "ack_success", "ack_failed"}

\* C12 as claimed: the task that runs the channel's callback only hands the
\* message over: it calls no business logic (collector start/stop,
\* configuration save, device restart) and does not call back into the
\* channel (stop, init, start, publish).
C12_AsClaimed ==
  \A i \in 1..Len(handlerLog) :
    handlerLog[i] \notin (BusinessCalls \cup ChannelCalls)

\* C13 as claimed: the supervisor never pops from a collector that was
\* stopped after its running check, and never publishes on a channel that
\* was stopped or is being re-initialized after its connected check.
C13_AsClaimed ==
  /\ pc = "get_data" => collectorRunning
  /\ pc = "publish" =>
       (mqttStarted /\ hpc \notin {"mqtt_wait", "mqtt_init", "mqtt_start"})

IsRestartCall(x) == x \in {"mqtt_client_stop", "vTaskDelay_1000",
                           "mqtt_client_init", "mqtt_client_start"}
ChannelRestart == <<"mqtt_client_stop", "vTaskDelay_1000", "mqtt_client_init",
                    "mqtt_client_start">>
RestartCalls == SelectSeq(handlerLog, IsRestartCall)
RestartPcs == {"mqtt_stop", "mqtt_wait", "mqtt_init", "mqtt_start"}

C15_Order ==
  /\ IsPrefix(RestartCalls, ChannelRestart)
  /\ \A i \in 1..Len(handlerLog) :
       handlerLog[i] = "mqtt_client_stop" =>
         (i > 1 /\ handlerLog[i - 1] = "app_config_save_ok")
  /\ hpc = "mqtt_stop" =>
       (handlerLog # <<>> /\ handlerLog[Len(handlerLog)] = "app_config_save_ok"
          /\ RestartCalls = <<>>)
  /\ hpc = "mqtt_wait" => Len(RestartCalls) = 1
  /\ hpc = "mqtt_init" =>
       (Len(RestartCalls) = 2 /\ ~mqttStarted /\ ~mqttConnected)
  /\ hpc = "mqtt_start" =>
       (Len(RestartCalls) = 3 /\ ~mqttStarted /\ ~mqttConnected)
  /\ hpc \in RestartPcs => err = "ESP_OK"
  /\ hpc \in {"mqtt_stop", "mqtt_wait", "mqtt_init"} => storedCfg > channelCfg
  /\ hpc \notin RestartPcs => Len(RestartCalls) \in {0, 4}

C15_Step ==
  /\ channelCfg' # channelCfg =>
       /\ hpc = "mqtt_init" /\ hpc' = "mqtt_start"
       /\ ~mqttStarted /\ ~mqttConnected
       /\ channelCfg' = storedCfg
  /\ (mqttStarted' /\ ~mqttStarted) => (hpc = "mqtt_start" /\ hpc' # hpc)
  /\ (hpc = "mqtt_save" /\ hpc' # hpc) =>
       IF storedCfg' = storedCfg + 1
         THEN hpc' = "mqtt_stop" /\ err' = "ESP_OK"
         ELSE hpc' = "node_section" /\ err' = "ESP_FAIL"
                /\ UNCHANGED <<storedCfg, mqttStarted, mqttConnected>>
  /\ (hpc \in RestartPcs /\ hpc' # hpc) =>
       hpc' = (CASE hpc = "mqtt_stop" -> "mqtt_wait"
                 [] hpc = "mqtt_wait" -> "mqtt_init"
                 [] hpc = "mqtt_init" -> "mqtt_start"
                 [] hpc = "mqtt_start" -> "node_section")

HeldIds == IF Held THEN {csi_data.id} ELSE {}

C14_Owners ==
  /\ \A i \in 1..Len(queue) : \A j \in 1..Len(queue) :
       i < j => queue[i].id < queue[j].id
  /\ QueuedIds \cap HeldIds = {}
  /\ QueuedIds \cap Released = {}
  /\ HeldIds \cap Released = {}
  /\ QueuedIds \cup HeldIds \cup Released = 1..produced
  /\ Held => csi_data.id = csi_data_count

C14_Step ==
  /\ (pc = "get_data" /\ pc' = "timestamp") =>
       /\ queue # <<>>
       /\ csi_data' = Head(queue) /\ queue' = Tail(queue)
       /\ csi_data'.id = csi_data_count + 1
       /\ csi_data'.id \notin Released
       /\ \A i \in 1..Len(queue') : queue'[i].id # csi_data'.id
  /\ Len(queue') < Len(queue) => (pc = "get_data" /\ pc' = "timestamp")
  /\ (csi_data' # csi_data /\ csi_data'.id # csi_data.id) =>
       \/ pc = "get_data" /\ csi_data = NoSample
       \/ pc = "free_data" /\ csi_data' = NoSample

\* C14: a sample put in the collector queue is handed to at most one
\* consumer: it is queued, held by the supervisor or released, never two of
\* these at once; a pop takes the head out of the queue, and no sample is
\* popped a second time, while the producer keeps queueing.
C14_AtMostOneConsumer ==
  /\ []C14_Owners
  /\ [][C14_Step]_vars

C14_Witness ==
  /\ pc = "timestamp" /\ csi_data.id = 1
  /\ Len(queue) = 1 /\ queue[1].id = 2
  /\ loop_counter = 2

\* C16 as claimed: the alert sent on the low-heap path has the level
\* critical.
C16_AsClaimed ==
  alertSent # NoAlert => alertSent.level = "critical"

\* ---- C17
\* the transitions the claim lists, each with its cause
ListedTransition ==
  \/ /\ wsState = "Disconnected" /\ wsState' = "Connecting"
     /\ wsAttempts' = wsAttempts + 1
  \/ /\ wsState = "Connecting" /\ wsState' = "Connected"
     /\ wsHandshakes' = wsHandshakes + 1
  \/ /\ wsState = "Connected" /\ wsState' = "Reconnecting"
     /\ connection_errors' = connection_errors + 1
  \/ /\ wsState = "Reconnecting" /\ wsState' = "Connecting"
     /\ wsConfig.auto_reconnect
     /\ wsElapsed >= wsConfig.reconnect_timeout_ms
  \/ /\ wsState = "Reconnecting" /\ wsState' = "Closed"
     /\ ~wsConfig.auto_reconnect \/ wsStopped'
  \/ /\ wsState \in {"Connected", "Connecting"} /\ wsState' = "Closed"
     /\ wsStopped'

\* a failed connection attempt takes the channel to Reconnecting
ConnectFailureTransition ==
  /\ wsState = "Connecting" /\ wsState' = "Reconnecting"
  /\ connection_errors' = connection_errors + 1

\* C17 as stated: the stream channel changes state only along Disconnected
\* to Connecting on start, Connecting to Connected on handshake success,
\* Connected to Reconnecting on transport error, Reconnecting to Connecting
\* after reconnect_timeout_ms with auto_reconnect, Reconnecting to Closed
\* without auto_reconnect, and Connected, Connecting or Reconnecting to
\* Closed on stop; no other transition is reachable.
C17_AsClaimed == [][wsState' # wsState => ListedTransition]_vars

\* C17, amended: the stream channel changes state only along the listed
\* transitions or from Connecting to Reconnecting when a connection attempt
\* fails; Closed is terminal and the state is always one of the five.
C17_Transitions ==
  /\ [](wsState \in ChannelStates)
  /\ [][wsState' # wsState =>
          ListedTransition \/ ConnectFailureTransition]_vars
  /\ [][wsState = "Closed" => wsState' = "Closed"]_vars

\* a channel that went from Connecting to Reconnecting and has been closed
C17_Witness ==
  /\ wsState = "Closed"
  /\ \E i \in 1..(Len(wsHistory) - 1) :
       wsHistory[i] = "Connecting" /\ wsHistory[i + 1] = "Reconnecting"

\* ---- C18
\* C18: once stop() has returned the stream channel is Closed and reports
\* not connected, and it stays so whatever connect completion, send
\* completion or reconnect timer is delivered afterwards.
C18_StopLeavesClosed ==
  /\ [](wsStopped => wsState = "Closed" /\ ~websocket_telemetry_is_connected)
  /\ [][wsStopped => wsStopped' /\ wsState' = "Closed"]_vars

\* stop() has returned and an event that was in flight has been delivered
C18_Witness ==
  /\ wsStopped
  /\ wsLate > 0
  /\ wsState = "Closed"

\* ---- C19
\* the states of a channel whose every connection attempt fails
FailingSequence(i) ==
  IF i = 1 THEN "Disconnected"
  ELSE IF i % 2 = 0 THEN "Connecting" ELSE "Reconnecting"

\* auto_reconnect is set, no handshake has succeeded, stop() was not called
ConnectKeepsFailing ==
  /\ wsConfig.auto_reconnect
  /\ wsHandshakes = 0
  /\ ~wsStopped

\* C19: with auto_reconnect set and every connection attempt failing, the
\* channel goes Disconnected, Connecting, Reconnecting, Connecting, ...; each
\* failure is followed by one reconnect attempt, and that attempt starts no
\* earlier than reconnect_timeout_ms after the failure.
C19_ReconnectSequence ==
  ConnectKeepsFailing =>
    /\ \A i \in DOMAIN wsHistory : wsHistory[i] = FailingSequence(i)
    /\ wsAttempts = IF wsState = "Reconnecting" THEN connection_errors
                    ELSE IF wsState = "Connecting" THEN connection_errors + 1
                    ELSE 0
    /\ Len(wsDelays) = IF wsAttempts = 0 THEN 0 ELSE wsAttempts - 1
    /\ \A i \in DOMAIN wsDelays : wsDelays[i] >= wsConfig.reconnect_timeout_ms

\* the default timeout, one failure, one reconnect attempt
C19_Witness ==
  /\ ConnectKeepsFailing
  /\ wsConfig.reconnect_timeout_ms = WS_DEFAULT_RECONNECT_MS
  /\ wsHistory = <<"Disconnected", "Connecting", "Reconnecting", "Connecting">>
  /\ wsDelays = <<WS_DEFAULT_RECONNECT_MS>>

\* ---- C20
\* the first k attempts of the latest send() all timed out
TimedOut(k) == \A i \in 1..k : httpOutcomes[i] = "timeout"

FailedSections ==
  { x \in {"ESP_LOGE_csi", "ESP_LOGE_mqtt", "ESP_LOGE_node"} :
      \E i \in DOMAIN handlerLog : handlerLog[i] = x }

\* remote_config_update_handler has returned from a non-null update
UpdateReturned ==
  /\ hpc = "idle"
  /\ msg.kind = "config"
  /\ result # "none"

AckStatus ==
  { x \in {"ack_success", "ack_failed"} :
      \E i \in DOMAIN handlerLog : handlerLog[i] = x }

\* C28 as stated: the handler returns ESP_OK and acknowledges "success" only
\* if no present section failed; if a present section failed, it returns a
\* failure and any acknowledgment says "failed".
C28_AsClaimed ==
  UpdateReturned =>
    /\ FailedSections # {} => result # "ESP_OK" /\ AckStatus \subseteq {"ack_failed"}
    /\ FailedSections = {} => result = "ESP_OK" /\ AckStatus \subseteq {"ack_success"}

\* ---- C29
\* the start-up is past its only subscription step (main.c:158-160) and the
\* start-up log is still kept; no later step of the task subscribes
SubscriptionStepPassed == pc \in {"ota", "init_counters"}

\* C29 as stated: once the client is started, the subscription to the device
\* topics is made in every run where the client becomes connected.  The
\* task subscribes at one step only, so a started and connected client that
\* is past that step must have the subscription made.
C29_AsClaimed ==
  SubscriptionStepPassed /\ mqttStarted /\ mqttConnected =>
    "mqtt_subscriber_subscribe_device_topics" \in called

\* ---- C30
\* the positions of the task on the low-heap path, and after it
LowHeapPcs == {"low_heap_alert", "low_heap_wait", "low_heap_restart",
               "restarted"}

\* the heap value read by the running tick was below the threshold
ReadLowHeap == heapRead # NoHeapRead /\ heapRead < LowHeapThreshold

C30_OnlyOnLowHeap ==
  /\ pc \in LowHeapPcs => ReadLowHeap
  /\ alertSent # NoAlert => ReadLowHeap
  /\ lowHeapLog # <<>> => ReadLowHeap
  /\ "esp_restart" \in emitted \/ "mqtt_publish_alert" \in emitted
       => ReadLowHeap

C30_Step ==
  /\ pc' = "restarted" /\ pc # "restarted" => pc = "low_heap_restart"
  /\ pc' = "low_heap_alert" /\ pc # "low_heap_alert" =>
       pc = "health" /\ heapRead' < LowHeapThreshold
  /\ pc' = "delay" /\ pc # "delay" =>
       pc = "health" /\ heapRead' >= LowHeapThreshold

\* C30: the task restarts the device only at the end of the low-heap path,
\* which it enters only from the guard and only with a heap value read on
\* that tick strictly below 10,000; no alert and no restart happen otherwise;
\* every tick, whatever is enabled, ends through the guard.
C30_RestartOnlyOnLowHeap == []C30_OnlyOnLowHeap /\ [][C30_Step]_vars

\* a restart on a later tick of a device with everything disabled, after
\* ticks on which the heap was at the threshold
C30_Witness ==
  /\ pc = "restarted"
  /\ loop_counter >= 2
  /\ ~config.csi_enabled /\ ~config.ntp_enabled
  /\ ~config.mqtt_enabled /\ ~config.ota_enabled
  /\ heapRead = LowHeapThreshold - 1

\* ---- C22
\* C22: for every message type, device id and payload of at most 65,535
\* bytes that encode accepts, decoding the bytes encode returned gives back
\* the same tag, device id, payload and sequence number; the bytes start
\* with an 8-byte header of tag (1 byte), device-id length (1 byte), payload
\* length (2 bytes) and sequence number (4 bytes).
C22_RoundTrip ==
  /\ wire.status = "OK" =>
       /\ Len(wire.bytes) =
            HeaderLen + Len(codecIn.device_id) + Len(codecIn.payload)
       /\ wire.bytes[1] = codecIn.tag
       /\ wire.bytes[2] = Len(codecIn.device_id)
       /\ Word(wire.bytes[3], wire.bytes[4]) = Len(codecIn.payload)
       /\ Word(wire.bytes[5], wire.bytes[6]) = codecIn.sequence_num.lo
       /\ Word(wire.bytes[7], wire.bytes[8]) = codecIn.sequence_num.hi
  /\ codecPc = "decoded" /\ received = wire.bytes =>
       /\ decoded.status = "OK"
       /\ decoded.tag = codecIn.tag
       /\ decoded.device_id = codecIn.device_id
       /\ decoded.payload = codecIn.payload
       /\ decoded.sequence_num = codecIn.sequence_num

\* a payload of 65,535 bytes with a device id has made the round trip
C22_Witness ==
  /\ codecPc = "decoded"
  /\ received = wire.bytes
  /\ Len(codecIn.payload) = MaxPayloadLen
  /\ Len(codecIn.device_id) > 0
  /\ decoded.status = "OK"

\* ---- C23
TooLarge ==
  \/ Len(codecIn.payload) > MaxPayloadLen
  \/ Len(codecIn.payload) > codecIn.buffer_size

\* C23: encode answers PayloadTooLarge, with no bytes, for every payload
\* longer than 65,535 bytes or longer than the configured buffer size; the
\* bytes it does emit carry the whole payload and a payload_len equal to the
\* payload's true length.
C23_PayloadTooLarge ==
  codecPc \notin {"idle", "input"} =>
    /\ TooLarge => wire.status = "PayloadTooLarge" /\ wire.bytes = <<>>
    /\ ~TooLarge => wire.status = "OK"
    /\ wire.status = "OK" =>
         /\ Word(wire.bytes[3], wire.bytes[4]) = Len(codecIn.payload)
         /\ Len(wire.bytes) =
              HeaderLen + Len(codecIn.device_id) + Len(codecIn.payload)
         /\ SubSeq(wire.bytes, HeaderLen + Len(codecIn.device_id) + 1,
                   Len(wire.bytes)) = codecIn.payload

\* a payload of 65,536 bytes was rejected by a channel whose buffer would
\* hold it
C23_Witness ==
  /\ codecPc = "encoded"
  /\ Len(codecIn.payload) = MaxPayloadLen + 1
  /\ codecIn.buffer_size > MaxPayloadLen
  /\ wire.status = "PayloadTooLarge"

\* ---- C24
\* the payload length the received header declares
Declared == Word(received[3], received[4])

Malformation ==
  \/ Len(received) < HeaderLen
  \/ /\ Len(received) >= HeaderLen
     /\ \/ Len(received) < HeaderLen + Declared
        \/ received[1] \notin MessageTypes

\* C24: decode answers FramingError for every input shorter than the header,
\* shorter than the header plus the payload length it declares, or with a
\* tag outside 1..7; it always answers with a result or FramingError.
C24_FramingError ==
  codecPc = "decoded" =>
    /\ decoded.status \in {"OK", "FramingError"}
    /\ Malformation => decoded.status = "FramingError"

\* a message that lost its last payload byte was refused
C24_Witness ==
  /\ codecPc = "decoded"
  /\ Len(received) >= HeaderLen
  /\ received[1] \in MessageTypes
  /\ Declared > 0
  /\ Len(received) < HeaderLen + Declared
  /\ decoded.status = "FramingError"

\* ---- C21
\* the step is a call of the named operation
Called(op) == wsOp'.op = op /\ wsOps' = wsOps + 1

SendPathUnchanged ==
  UNCHANGED <<sendBuffer, wsWire, sequence_num, messages_sent, bytes_sent,
              wsEvents>>

C21_Call ==
  Called("sendBatch") =>
    LET n == wsOp'.n
    IN  /\ n > WS_MAX_CSI_BATCH_SIZE =>
             wsOpResult' = "InvalidArgument" /\ SendPathUnchanged
        /\ n = 0 => wsOpResult' # "InvalidArgument" /\ SendPathUnchanged
        /\ /\ n \in 1..WS_MAX_CSI_BATCH_SIZE
           /\ websocket_telemetry_is_connected
           /\ BufferedBytes(sendBuffer) + HeaderLen + n * SampleBytes
                <= wsBufferSize
           => /\ wsOpResult' = "ESP_OK"
              /\ Len(sendBuffer') = Len(sendBuffer) + 1
              /\ SubSeq(sendBuffer', 1, Len(sendBuffer)) = sendBuffer
              /\ sendBuffer'[Len(sendBuffer')].tag = WS_MSG_BATCH_CSI
              /\ sendBuffer'[Len(sendBuffer')].samples = [i \in 1..n |-> i]

\* a buffered message goes out once, as it is
C21_Transmit ==
  wsWire' # wsWire =>
    /\ sendBuffer # <<>>
    /\ sendBuffer' = Tail(sendBuffer)
    /\ Len(wsWire') = Len(wsWire) + 1
    /\ SubSeq(wsWire', 1, Len(wsWire)) = wsWire
    /\ wsWire'[Len(wsWire')].tag = Head(sendBuffer).tag
    /\ wsWire'[Len(wsWire')].samples = Head(sendBuffer).samples

BatchesWellFormed ==
  \A i \in DOMAIN wsWire :
    wsWire[i].tag = WS_MSG_BATCH_CSI =>
      /\ Len(wsWire[i].samples) \in 1..WS_MAX_CSI_BATCH_SIZE
      /\ \A k \in DOMAIN wsWire[i].samples : wsWire[i].samples[k] = k

Succ32(a, b) ==
  /\ b.lo = (a.lo + 1) % (MaxPayloadLen + 1)
  /\ b.hi = IF a.lo = MaxPayloadLen THEN (a.hi + 1) % (MaxPayloadLen + 1)
            ELSE a.hi

Consecutive ==
  /\ \A i \in 1..(Len(wsWire) - 1) :
       Succ32(wsWire[i].sequence_num, wsWire[i + 1].sequence_num)
  /\ wsWire # <<>> =>
       Succ32(wsWire[Len(wsWire)].sequence_num, sequence_num)

C25_Wrap ==
  sequence_num = SeqMax /\ sequence_num' # sequence_num =>
    /\ sequence_num' = SeqZero
    /\ wsState = "Connected" /\ wsState' = "Connected"
    /\ wsHistory' = wsHistory
    /\ messages_sent' = messages_sent + 1
    /\ bytes_sent' >= bytes_sent
    /\ UNCHANGED <<wsEvents, connection_errors, messages_received,
                   avg_latency_ms, wsAttempts, wsHandshakes>>

\* C25: on a connection every message carries the previous message's
\* sequence number plus one modulo 2^32; the step from 2^32-1 to 0 leaves
\* the channel Connected, resets no counter and surfaces no event.
C25_SequenceNumbers == []Consecutive /\ [][C25_Wrap]_vars

\* the messages numbered 2^32-1 and 0 have been sent one after the other
C25_Witness ==
  \E i \in 1..(Len(wsWire) - 1) :
    /\ wsWire[i].sequence_num = SeqMax
    /\ wsWire[i + 1].sequence_num = SeqZero

\* ---- C26
C26_Pong ==
  Called("pong") =>
    IF wsPing # NoPing /\ wsOp'.n = wsPing.id
      THEN /\ avg_latency_ms' > 0
           /\ messages_received' = messages_received + 1
      ELSE avg_latency_ms' = avg_latency_ms

\* only a Pong changes the latency and the received count
C26_Others ==
  ~Called("pong") =>
    UNCHANGED <<avg_latency_ms, messages_received>>

C27_Offer ==
  /\ sendBuffer' # sendBuffer /\ wsWire' = wsWire =>
       /\ Len(sendBuffer') = Len(sendBuffer) + 1
       /\ SubSeq(sendBuffer', 1, Len(sendBuffer)) = sendBuffer
  /\ Called("send") /\ websocket_telemetry_is_connected =>
       \/ /\ Len(sendBuffer') = Len(sendBuffer) + 1
          /\ sendBuffer'[Len(sendBuffer')].size = wsOp'.n
          /\ wsEvents' = wsEvents
       \/ /\ BufferedBytes(sendBuffer) + wsOp'.n > wsBufferSize
          /\ sendBuffer' = sendBuffer
          /\ wsEvents' = Append(wsEvents, "send_buffer_overflow")
          /\ wsOpResult' # "ESP_OK"

\* C27: the send buffer never holds more than buffer_size bytes; a message
\* that would overflow it is the one dropped, the buffered messages stay as
\* they are, in order, and the drop surfaces as an error event.
C27_BoundedBuffer ==
  /\ [](BufferedBytes(sendBuffer) <= wsBufferSize)
  /\ [][C27_Offer]_vars

\* a message was dropped while an earlier one is still buffered
C27_Witness ==
  /\ wsEvents # <<>>
  /\ sendBuffer # <<>>
  /\ wsOpResult = "ESP_FAIL"
  /\ wsOp.op = "send"

\* ---- C31
\* the held sample has not reached its publish yet
PublishAhead == IF pc \in {"timestamp", "check_connected", "publish"}
                  THEN 1 ELSE 0

C31_Ordered ==
  /\ mqtt_publish_count + mqtt_publish_errors + PublishAhead <= csi_data_count
  /\ csi_data_count <= loop_counter

C31_Counting ==
  /\ loop_counter' >= loop_counter
  /\ csi_data_count' \in {csi_data_count, csi_data_count + 1}
  /\ \/ UNCHANGED <<mqtt_publish_count, mqtt_publish_errors>>
     \/ /\ mqtt_publish_count' = mqtt_publish_count + 1
        /\ UNCHANGED mqtt_publish_errors
     \/ /\ mqtt_publish_errors' = mqtt_publish_errors + 1
        /\ UNCHANGED mqtt_publish_count
  /\ (queue' # queue /\ Len(queue') < Len(queue)) <=>
       csi_data_count' = csi_data_count + 1
  /\ csi_data_count' # csi_data_count =>
       UNCHANGED <<loop_counter, mqtt_publish_count, mqtt_publish_errors>>

ChannelEntryPoints == {"mqtt_client_stop", "mqtt_client_init",
                       "mqtt_client_start"}

Logged(entries) == \E i \in DOMAIN handlerLog : handlerLog[i] \in entries

\* handle_mqtt_config returns without having reached mqtt_client_stop
MqttSectionFails ==
  /\ msg.mqtt
  /\ hpc \in {"mqtt_section", "mqtt_save"}
  /\ hpc' = "node_section"

C32_Error ==
  MqttSectionFails =>
    /\ err' # "ESP_OK"
    /\ \A i \in DOMAIN handlerLog' : handlerLog'[i] \notin ChannelEntryPoints
    /\ UNCHANGED <<mqttStarted, mqttConnected, channelCfg, stored>>

\* the channel is restarted only by a save that succeeded
C32_Restart ==
  hpc' = "mqtt_stop" /\ hpc # hpc' =>
    /\ hpc = "mqtt_save"
    /\ handlerLog'[Len(handlerLog')] = "app_config_save_ok"
    /\ \A f \in FieldNames :
         stored'[f] = IF f \in MqttFields /\ msg.fields[f] = "valid"
                        THEN "remote" ELSE stored[f]

\* C32: when loading the current configuration or saving the updated one
\* fails, handle_mqtt_config returns the error and the channel is neither
\* stopped, re-initialized nor started; a field the update does not carry,
\* or carries with another JSON type, keeps its stored value.
C32_MqttConfigError == [][C32_Error /\ C32_Restart]_vars

\* the save failed for an update with a valid broker_url and a port of the
\* wrong type: nothing is stored and the channel runs on
C32_Witness ==
  /\ hpc = "node_section"
  /\ msg.mqtt
  /\ msg.fields["broker_url"] = "valid" /\ msg.fields["port"] = "wrong_type"
  /\ handlerLog = <<"app_config_load", "app_config_save_failed",
                    "ESP_LOGE_mqtt">>
  /\ err = "ESP_FAIL"
  /\ stored = StoredAtBoot
  /\ mqttStarted /\ mqttConnected

\* ---- C33
\* the update carries a string ssid or a string password in its wifi item
StringWifiField ==
  /\ msg.wifi
  /\ msg.fields["ssid"] = "valid" \/ msg.fields["password"] = "valid"

LastLogged(log, entry) == log # <<>> /\ log[Len(log)] = entry

\* handle_node_settings has run up to its save
NodeSettingsSaved ==
  /\ hpc = "node_section" /\ hpc' # hpc
  /\ msg.node
  /\ LastLogged(handlerLog', "app_config_save_ok")

C33_Request ==
  /\ (hpc = "node_section" /\ hpc' # hpc) =>
       ((hpc' = "node_wait") <=> (NodeSettingsSaved /\ StringWifiField))
  /\ (hpc' = "node_wait" /\ hpc' # hpc) => hpc = "node_section"
  /\ (hpc = "node_wait" /\ hpc' # hpc) =>
       /\ hpc' = "node_restart"
       /\ handlerLog' = Append(handlerLog, "vTaskDelay_5000")
  /\ (hpc = "node_restart" /\ hpc' # hpc) =>
       /\ hpc' = "restarted" /\ pc' = "restarted"
       /\ handlerLog' = Append(handlerLog, "esp_restart")
  /\ (hpc' = "restarted" /\ hpc' # hpc) => hpc = "node_restart"

C33_Order ==
  /\ hpc = "node_wait" => ENABLED NodeWait
  /\ hpc = "node_restart" => ENABLED NodeRestart
  /\ Logged({"esp_restart"}) =>
       /\ Len(handlerLog) >= 3
       /\ SubSeq(handlerLog, Len(handlerLog) - 2, Len(handlerLog)) =
            <<"app_config_save_ok", "vTaskDelay_5000", "esp_restart">>
       /\ StringWifiField

\* C33: handle_node_settings asks for a device restart if and only if the
\* save succeeded and the update carried a string wifi ssid or a string wifi
\* password; the restart follows the save and a 5 s delay.
C33_NodeRestart == []C33_Order /\ [][C33_Request]_vars

\* restarted for a string password next to an ssid of another type
C33_Witness ==
  /\ hpc = "restarted"
  /\ msg.node /\ msg.wifi /\ ~msg.mqtt
  /\ msg.fields["ssid"] = "wrong_type" /\ msg.fields["password"] = "valid"
  /\ handlerLog = <<"app_config_load", "app_config_save_ok",
                    "vTaskDelay_5000", "esp_restart">>
  /\ stored["password"] = "remote" /\ stored["ssid"] = "stored"

\* ---- C34
AckEntries == {"ack_success", "ack_failed"}

AckCount(log) == Cardinality({i \in DOMAIN log : log[i] \in AckEntries})

\* remote_config_update_handler has returned from a non-NULL update
ConfigReturned == hpc = "idle" /\ msg.kind = "config"

\* the load of the acknowledgment step: the last one of the run
LastLoad(log) ==
  CHOOSE i \in DOMAIN log :
    /\ log[i] = "app_config_load"
    /\ \A j \in DOMAIN log : j > i => log[j] # "app_config_load"

\* the stored configuration loaded when the acknowledgment was due
AckLoaded(log) == LastLoad(log) < Len(log)

\* ... and the acknowledgment was printed
AckPrinted(log) ==
  /\ AckLoaded(log)
  /\ LastLoad(log) + 1 < Len(log)

NullReturned ==
  msg.kind = "null_config" =>
    /\ hpc = "idle"
    /\ result = "ESP_ERR_INVALID_ARG"
    /\ handlerLog = <<>>

HandlerOrder ==
  [idle |-> 0, csi_section |-> 1, mqtt_section |-> 2, mqtt_save |-> 3,
   mqtt_stop |-> 4, mqtt_wait |-> 5, mqtt_init |-> 6, mqtt_start |-> 7,
   node_section |-> 8, node_wait |-> 9, node_restart |-> 10, ack |-> 9,
   restarted |-> 11, cmd_restart_wait |-> 0, cmd_restart |-> 0]

CsiEntries == {"csi_collector_get_config", "csi_collector_update_config",
               "ESP_LOGE_csi"}

Added(log, log2) == {log2[i] : i \in (Len(log) + 1)..Len(log2)}

C34_Sections ==
  msg'.kind = "config" /\ hpc' # hpc =>
    /\ hpc = "idle" => hpc' = "csi_section" /\ handlerLog' = <<>>
    /\ hpc # "idle" =>
         /\ msg' = msg
         /\ SubSeq(handlerLog', 1, Len(handlerLog)) = handlerLog
         /\ hpc' = "idle" \/ HandlerOrder[hpc'] > HandlerOrder[hpc]
    /\ hpc = "csi_section" =>
         /\ hpc' = "mqtt_section"
         /\ msg.csi <=> handlerLog' # handlerLog
         /\ Added(handlerLog, handlerLog') \subseteq CsiEntries
    /\ hpc = "mqtt_section" =>
         /\ hpc' \in {"mqtt_save", "node_section"}
         /\ msg.mqtt <=> handlerLog' # handlerLog
    /\ hpc = "mqtt_start" => hpc' = "node_section"
    /\ hpc = "node_section" =>
         /\ hpc' \in {"node_wait", "ack"}
         /\ msg.node <=> handlerLog' # handlerLog
    /\ hpc' = "idle" => hpc = "ack" /\ result' = err
    /\ hpc # "ack" => Added(handlerLog, handlerLog') \cap AckEntries = {}

\* C34 as claimed: a non-NULL update that does not end in a restart is
\* acknowledged exactly once provided the stored configuration can be
\* loaded; a NULL update returns ESP_ERR_INVALID_ARG, runs no section
\* handler and publishes no acknowledgment.
C34_AsClaimed ==
  /\ NullReturned
  /\ ConfigReturned /\ AckLoaded(handlerLog) => AckCount(handlerLog) = 1

C34_Acknowledged ==
  /\ NullReturned
  /\ AckCount(handlerLog) <= 1
  /\ ConfigReturned =>
       AckCount(handlerLog) = IF AckPrinted(handlerLog) THEN 1 ELSE 0
  /\ AckCount(handlerLog) = 1 =>
       /\ ConfigReturned
       /\ handlerLog[Len(handlerLog)] \in AckEntries

\* C34 (amended): a non-NULL update that does not end in a restart has its
\* present sections handled in the order csi, mqtt, node and is then
\* acknowledged exactly once provided the stored configuration can be loaded
\* and the acknowledgment can be printed, and not at all otherwise; a NULL
\* update returns ESP_ERR_INVALID_ARG, runs no section handler and publishes
\* no acknowledgment.
C34_OrderedAndAcknowledged == []C34_Acknowledged /\ [][C34_Sections]_vars

\* the three sections ran and the update was acknowledged
C34_Witness ==
  /\ ConfigReturned
  /\ msg.csi /\ msg.mqtt /\ msg.node
  /\ handlerLog = <<"csi_collector_get_config", "csi_collector_update_config",
                    "app_config_load", "app_config_save_ok",
                    "mqtt_client_stop", "vTaskDelay_1000", "mqtt_client_init",
                    "mqtt_client_start", "app_config_load",
                    "app_config_save_ok", "app_config_load",
                    "cJSON_PrintUnformatted", "ack_success">>

\* ---- C35
\* remote_command_handler is entered with the params of msg'
CommandDelivered ==
  /\ delivered' = delivered + 1
  /\ msg'.kind \in {"command", "null_params"}

\* nothing of the collector, the storage, the channel or the device changes
NoCollaboratorCalled ==
  /\ handlerLog' = <<>>
  /\ hpc' = "idle"
  /\ UNCHANGED <<pc, collectorRunning, stored, storedCfg, channelCfg,
                 mqttStarted, mqttConnected, queue, ackTopic>>

C35_Dispatch ==
  CommandDelivered =>
    /\ ( \/ msg'.kind = "null_params"
         \/ msg'.command \in {"missing", "not_a_string"} ) =>
           result' = "ESP_ERR_INVALID_ARG" /\ NoCollaboratorCalled
    /\ ( /\ msg'.kind = "command"
         /\ msg'.command \notin Commands \cup {"missing", "not_a_string"} ) =>
           result' = "ESP_ERR_NOT_SUPPORTED" /\ NoCollaboratorCalled

\* C35: remote_command_handler returns ESP_ERR_INVALID_ARG for NULL params, a
\* missing command field or a command that is not a string, and
\* ESP_ERR_NOT_SUPPORTED for a command string outside restart, start_csi,
\* stop_csi, calibrate, factory_reset, get_status; in both cases no
\* collaborator is called.
C35_CommandDispatch == [][C35_Dispatch]_vars

\* a command string the handler does not know was refused
C35_Witness ==
  /\ msg = CommandMessage("unknown")
  /\ hpc = "idle"
  /\ result = "ESP_ERR_NOT_SUPPORTED"
  /\ handlerLog = <<>>
  /\ collectorRunning /\ pc = "loop"

\* ---- C36
RestartingCommands == {"restart", "factory_reset"}

CommandRunning == msg.kind = "command"

C36_Restarts ==
  CommandRunning =>
    /\ ( \/ Logged({"esp_restart"})
         \/ hpc \in {"cmd_restart_wait", "cmd_restart", "restarted"}
         \/ pc = "restarted" ) => msg.command \in RestartingCommands
    /\ msg.command = "factory_reset" =>
         /\ handlerLog = <<"nvs_flash_erase", "esp_restart">>
         /\ hpc = "restarted" /\ pc = "restarted"
    /\ msg.command = "restart" =>
         /\ hpc \in {"cmd_restart_wait", "cmd_restart", "restarted"}
         /\ hpc = "cmd_restart_wait" => ENABLED CmdRestartWait
         /\ hpc = "cmd_restart" => ENABLED CmdRestart
         /\ hpc = "restarted" =>
              /\ handlerLog = <<"vTaskDelay_2000", "esp_restart">>
              /\ pc = "restarted"

CollectorCommand(c, call) ==
  CommandDelivered /\ msg'.command = c =>
    /\ handlerLog' = <<call>>
    /\ hpc' = "idle"
    /\ result' \in {"ESP_OK", "ESP_FAIL"}
    /\ UNCHANGED <<pc, stored, storedCfg, channelCfg, mqttStarted,
                   mqttConnected, queue, produced, ntpStarted, ackTopic>>

C36_Collector ==
  /\ CollectorCommand("start_csi", "csi_collector_start")
  /\ CollectorCommand("stop_csi", "csi_collector_stop")
  /\ CommandDelivered /\ msg'.command = "start_csi" =>
       /\ result' = "ESP_OK" => collectorRunning'
       /\ result' # "ESP_OK" => collectorRunning' = collectorRunning
  /\ CommandDelivered /\ msg'.command = "stop_csi" =>
       /\ result' = "ESP_OK" => ~collectorRunning'
       /\ result' # "ESP_OK" => collectorRunning' = collectorRunning

\* C36: of the remote commands only restart and factory_reset restart the
\* device; factory_reset erases the persistent storage before it asks for
\* the restart; start_csi and stop_csi return the collector's own result
\* and do nothing else.
C36_CommandEffects == []C36_Restarts /\ [][C36_Collector]_vars

\* stop_csi failed: the handler returned the failure and the collector runs
C36_Witness ==
  /\ msg = CommandMessage("stop_csi")
  /\ hpc = "idle"
  /\ result = "ESP_FAIL"
  /\ handlerLog = <<"csi_collector_stop">>
  /\ collectorRunning


\* ---------------------------------------------------------------------
\* C37: the supervisor works from the configuration it loaded at start-up
\* for its whole lifetime.  No step of the loop or of a configuration
\* update changes the loop's copy, so the enable flags stay as loaded; the
\* device name the loop passes to the metrics and to the low-heap alert is
\* the one loaded at start-up even after an update has stored another name;
\* the acknowledgment of the update is published under the name that is
\* stored when it is sent.
NameStoredByUpdate == stored["device_name"] = "remote"

C37_LoopCopy ==
  /\ config' = config
  /\ nameUsed' # "" => nameUsed' = config.device_name /\ nameUsed' = "stored"
  /\ (ackTopic' # ackTopic /\ ackTopic' # "")
       => ackTopic' = stored'["device_name"]

C37_StartupSnapshot == [][C37_LoopCopy]_vars

C37_Witness ==
  /\ NameStoredByUpdate
  /\ ackTopic = "remote"
  /\ nameUsed = "stored"
  /\ "mqtt_publish_system_metrics" \in emitted
  /\ config.mqtt_enabled


\* ---------------------------------------------------------------------
\* the tick counter has certainly wrapped since the action last fired at
\* tick last: it now reads below last, or more quanta have really elapsed
\* than the unsigned difference shows
WrappedSince(now, last, since) ==
  now < last \/ since > TickDiff(now, last)

\* C38 as claimed: when the tick counter has wrapped around between the
\* last firing of a periodic action and the current tick, the action (30 s
\* statistics, 300 s metrics with the channel enabled and connected, 300 s
\* update check with auto-update enabled) fires on that tick if and only if
\* its period has really elapsed since it last fired.
C38_Stats ==
  (pc = "stats" /\ pc' = "metrics"
     /\ WrappedSince(tickCount, last_stats_time, sinceStats)) =>
    ((emitted' = {"stats_log"}) <=> (sinceStats >= StatsPeriod))

C38_Metrics ==
  (pc = "metrics" /\ pc' = "ota_check"
     /\ config.mqtt_enabled /\ mqttConnected
     /\ WrappedSince(current_time, last_system_metrics, sinceMetrics)) =>
    ((emitted' = {"mqtt_publish_system_metrics"}) <=>
       (sinceMetrics >= MetricsPeriod))

C38_Ota ==
  (pc = "ota_check" /\ pc' = "health" /\ AutoUpdate
     /\ WrappedSince(current_time, last_ota_check, sinceOta)) =>
    ((emitted' \in {{"ota_check_ok"}, {"ota_check_failed"}}) <=>
       (sinceOta >= OtaPeriod))

C38_AsClaimed == [][C38_Stats /\ C38_Metrics /\ C38_Ota]_vars

\* the parts of C38 that hold: the statistics and the update check
C38_StatsAndOta == [][C38_Stats /\ C38_Ota]_vars
\* a metrics publish is never early, wrapped counter or not
C38_MetricsNeverEarly ==
  [][(pc = "metrics" /\ emitted' = {"mqtt_publish_system_metrics"}) =>
       sinceMetrics >= MetricsPeriod]_vars


\* ---------------------------------------------------------------------
\* position of the start-up sequence after the clock sync was started
AfterNtpStart == {"ntp_wait", "mqtt", "mqtt_started", "ota", "init_counters"}

StartupRank(p) ==
  CASE p = "ntp_wait" -> 0
    [] p = "mqtt" -> 1
    [] p = "mqtt_started" -> 2
    [] p = "ota" -> 3
    [] p = "init_counters" -> 4
    [] OTHER -> 5

C39_Wait ==
  /\ ntp_wait_i <= NtpWaitPolls
  /\ pc = "ntp_wait" =>
       /\ ntpStarted
       /\ ENABLED NtpWait
       /\ ENABLED (NtpWait /\ pc' = "mqtt")
       /\ ~ENABLED (NtpWait /\ UNCHANGED <<pc, ntp_wait_i>>)
       /\ ntp_wait_i = NtpWaitPolls => ~ENABLED (NtpWait /\ pc' = pc)
  /\ pc \in AfterNtpStart => ENABLED Startup

C39_Step ==
  /\ (pc = "ntp_wait" /\ pc' = pc /\ ntp_wait_i' # ntp_wait_i) =>
       (ntp_wait_i < NtpWaitPolls /\ ntp_wait_i' = ntp_wait_i + 1)
  /\ (pc = "ntp_wait" /\ pc' # pc) => pc' = "mqtt"
  /\ (pc \in AfterNtpStart /\ pc' # pc) =>
       /\ StartupRank(pc') > StartupRank(pc)
       /\ pc' \in AfterNtpStart \cup {"loop"}
  /\ (pc = "init_counters" /\ pc' # pc) => pc' = "loop"

\* C39: the wait for the initial clock synchronization terminates: it
\* delays at most 30 times, one poll of the synchronization state before
\* each delay; it can end at any poll, which it does when the poll reports
\* the clock synchronized; after 30 delays it ends without a further poll;
\* whichever way it ends, start-up goes on, each step further along, through
\* the set-up of the channel and of the update checker into the loop.
C39_NtpWaitTerminates ==
  /\ []C39_Wait
  /\ [][C39_Step]_vars

C39_Witness ==
  /\ pc = "ntp_wait" /\ ntp_wait_i = NtpWaitPolls
  /\ ntpStarted /\ config.ntp_enabled
  /\ "ntp_sync_start" \in called

\* start-up has reached the loop's counters after a started clock sync
C39_Continued ==
  /\ pc = "init_counters" /\ ntpStarted
  /\ {"ntp_sync_start", "mqtt_client_init", "ota_updater_init"}
       \subseteq called

\* under a fair scheduling of the supervisor task the wait is left
C39_Leaves == (pc = "ntp_wait") ~> (pc = "mqtt")

====
